---- MODULE Spec2Model ----
(***************************************************************************)
(* Boundary resolution, polygon assembly, validation and repair of the     *)
(* AIXM/airspace to GeoJSON converter (src/src/airspace-converter.js).     *)
(*                                                                         *)
(* Coordinates are points <<lon, lat>> in seconds of arc (the resolution of *)
(* a coordinate token) on a small grid at the equator and prime meridian.  *)
(* turf distance and area are modelled by their planar values on that      *)
(* grid, turf bearing by the whole degrees of the great-circle bearing;    *)
(* the JSTS validity predicates and the turf polygon helpers are modelled  *)
(* by what they compute for a polygon with a single exterior ring.         *)
(***************************************************************************)
EXTENDS Integers, Sequences, FiniteSets, TLC

\* Largest grid coordinate: points are (0..GridMax) x (0..GridMax).
GridMax == 2
\* Largest number of coordinate tokens in one line segment.
MaxPts == 4
\* Grid steps per second of arc where points closer than a metre are drawn.
FineScale == 40
\* The largest arc radius in nautical miles, and distance of a point from the
\* arc centre in minutes of arc.
MaxRadius == 2
\* Geometry definitions of one airspace.
MaxDefinitions == 2
\* Calls of convert on one instance after the first.
MaxCalls == 2
\* Airspace members of one AIXM document.
MaxMembers == 2
\* Applications of a function in a row.
MaxPasses == 2

Points == (0 .. GridMax) \X (0 .. GridMax)

Abs(n) == IF n < 0 THEN -n ELSE n
Sgn(n) == IF n < 0 THEN -1 ELSE IF n > 0 THEN 1 ELSE 0
Min2(a, b) == IF a < b THEN a ELSE b
Max2(a, b) == IF a < b THEN b ELSE a
Last(s) == s[Len(s)]
Reverse(s) == [i \in 1 .. Len(s) |-> s[Len(s) + 1 - i]]

RECURSIVE Gcd(_, _)
Gcd(a, b) == IF b = 0 THEN a ELSE Gcd(b, a % b)
Lcm(a, b) == (a * b) \div Gcd(a, b)

RECURSIVE LcmOfSet(_)
LcmOfSet(S) ==
    IF S = {} THEN 1
    ELSE LET x == CHOOSE y \in S : TRUE IN Lcm(x, LcmOfSet(S \ {x}))

----------------------------------------------------------------------------
(* turf distance / bearing on the grid *)

\* Squared threshold of removeDuplicates: 0.001 km = 1 m.
DupRadius2 == 1

\* Squared planar distance in square metres (turf distance, units kilometers):
\* one grid step is one second of arc, 30.9 m at the equator.
distance2(p, q) == 954 * ((p[1] - q[1]) * (p[1] - q[1]) + (p[2] - q[2]) * (p[2] - q[2]))

\* floor(tan(k degrees) * 10^5), k = 1 .. 89
TanE5 ==
    << 1745, 3492, 5240, 6992, 8748, 10510, 12278, 14054, 15838, 17632, 19438,
       21255, 23086, 24932, 26794, 28674, 30573, 32491, 34432, 36397, 38386,
       40402, 42447, 44522, 46630, 48773, 50952, 53170, 55430, 57735, 60086,
       62486, 64940, 67450, 70020, 72654, 75355, 78128, 80978, 83909, 86928,
       90040, 93251, 96568, 100000, 103553, 107236, 111061, 115036, 119175,
       123489, 127994, 132704, 137638, 142814, 148256, 153986, 160033, 166427,
       173205, 180404, 188072, 196261, 205030, 214450, 224603, 235585, 247508,
       260508, 274747, 290421, 307768, 327085, 348741, 373205, 401078, 433147,
       470463, 514455, 567128, 631375, 711536, 814434, 951436, 1143005,
       1430066, 1908113, 2863625, 5728996 >>

\* Whole degrees of atan(a / b) for a, b > 0 (truncated).
AcuteDeg(a, b) == Cardinality({k \in 1 .. 89 : TanE5[k] * b <= a * 100000})

\* parseInt(calcBearing(p, q)): the initial great-circle bearing from p to q,
\* clockwise from north, in (-180, 180], truncated towards zero.  Along a
\* meridian it is exactly 0 or 180 and along the equator exactly 90 or -90;
\* along another parallel it falls just short of 90, and a diagonal of equal
\* steps falls just short of 45 or to either side of 135 (the second-order
\* terms of the great circle decide).  Every other direction between grid
\* points is far from a whole degree.
RECURSIVE calcBearingInt(_, _)
calcBearingInt(p, q) ==
    LET dx == q[1] - p[1]
        dy == q[2] - p[2]
    IN  IF dx = 0 THEN (IF dy >= 0 THEN 0 ELSE 180)
        ELSE IF dx < 0 THEN -calcBearingInt(<<0, p[2]>>, <<-dx, q[2]>>)
        ELSE IF dy = 0 THEN (IF p[2] = 0 THEN 90 ELSE 89)
        ELSE IF dy > 0 THEN (IF dx = dy THEN 44 ELSE AcuteDeg(dx, dy))
        ELSE IF dx = -dy THEN (IF p[2] * dx < q[2] * q[2] THEN 135 ELSE 134)
        ELSE 180 - AcuteDeg(dx, -dy) - 1

----------------------------------------------------------------------------
(* segment predicates used by the validity tests and by unkinkPolygon *)

Orient(a, b, c) == (b[1] - a[1]) * (c[2] - a[2]) - (b[2] - a[2]) * (c[1] - a[1])

InBox(a, b, c) ==
    /\ Min2(a[1], b[1]) <= c[1] /\ c[1] <= Max2(a[1], b[1])
    /\ Min2(a[2], b[2]) <= c[2] /\ c[2] <= Max2(a[2], b[2])

OnSegment(a, b, c) == Orient(a, b, c) = 0 /\ InBox(a, b, c)

\* The segments cross at one point interior to both.
SegProper(a, b, c, d) ==
    /\ Sgn(Orient(a, b, c)) * Sgn(Orient(a, b, d)) < 0
    /\ Sgn(Orient(c, d, a)) * Sgn(Orient(c, d, b)) < 0

SegIntersects(a, b, c, d) ==
    \/ SegProper(a, b, c, d)
    \/ OnSegment(a, b, c) \/ OnSegment(a, b, d)
    \/ OnSegment(c, d, a) \/ OnSegment(c, d, b)

\* Collinear segments sharing more than one point.
SegOverlap(a, b, c, d) ==
    /\ Orient(a, b, c) = 0 /\ Orient(a, b, d) = 0
    /\ LET ax == IF a[1] # b[1] THEN 1 ELSE 2
       IN  Max2(Min2(a[ax], b[ax]), Min2(c[ax], d[ax]))
             < Min2(Max2(a[ax], b[ax]), Max2(c[ax], d[ax]))

----------------------------------------------------------------------------
(* Geometry Validator: jsts IsValidOp, IsSimpleOp, ConsistentAreaTester *)

\* A geometry is a polygon with one exterior ring.  The ring's coordinates
\* are coords[i] / scale; scale is 1 except for the rings cut out by
\* unkinkPolygon, whose crossing points are rational.
Geometry(ring, scale) == [coords |-> ring, scale |-> scale]
NoGeometry == [coords |-> << >>, scale |-> 0]

\* CoordinateArrays.removeRepeatedPoints, applied by GeometryGraph to a ring.
RECURSIVE removeRepeatedPoints(_)
removeRepeatedPoints(ring) ==
    IF Len(ring) <= 1 THEN ring
    ELSE LET rest == removeRepeatedPoints(Tail(ring))
         IN  IF ring[1] = rest[1] THEN rest ELSE <<ring[1]>> \o rest

\* Segment i of the ring runs from r[i] to r[i + 1].
AdjacentSegments(r, i, j) == j = i + 1 \/ (i = 1 /\ j = Len(r) - 1)

\* SegmentIntersector: the segments i < j meet other than in the end point
\* two consecutive segments share.
NonTrivialIntersection(r, i, j) ==
    /\ SegIntersects(r[i], r[i + 1], r[j], r[j + 1])
    /\ ~ (/\ AdjacentSegments(r, i, j)
          /\ ~ SegOverlap(r[i], r[i + 1], r[j], r[j + 1]))

SegmentPairs(r) == {ij \in (1 .. Len(r) - 1) \X (1 .. Len(r) - 1) : ij[1] < ij[2]}

hasIntersection(r) == \E ij \in SegmentPairs(r) : NonTrivialIntersection(r, ij[1], ij[2])

hasProperIntersection(r) ==
    \E ij \in SegmentPairs(r) : SegProper(r[ij[1]], r[ij[1] + 1], r[ij[2]], r[ij[2] + 1])

hasOverlap(r) ==
    \E ij \in SegmentPairs(r) : SegOverlap(r[ij[1]], r[ij[1] + 1], r[ij[2]], r[ij[2] + 1])

\* GeometryGraph.addPolygonRing: fewer than 4 points once repeats are removed.
hasTooFewPoints(r) == Len(r) < 4

\* IsValidOp on a polygon with a single ring: enough points, no proper
\* crossing (consistent area), no ring self-intersection.
isValid(geometry) ==
    LET r == removeRepeatedPoints(geometry.coords)
    IN  ~ hasTooFewPoints(r) /\ ~ hasIntersection(r)

\* IsSimpleOp on a polygon: its ring, read as a line string, does not meet
\* itself (a ring of fewer than 2 distinct points has no segment).
isSimple(geometry) ==
    LET r == removeRepeatedPoints(geometry.coords)
    IN  ~ hasIntersection(r)

\* getSelfIntersections: undefined ("none") when the polygon graph is a simple
\* linear geometry (a ring with too few points adds no edge to the graph);
\* otherwise the ConsistentAreaTester's invalid point ("point"), or the empty
\* object the code starts from when the area is node-consistent ("empty").
getSelfIntersections(geometry) ==
    LET r == removeRepeatedPoints(geometry.coords)
    IN  IF hasTooFewPoints(r) \/ ~ hasIntersection(r) THEN "none"
        ELSE IF hasProperIntersection(r) \/ hasOverlap(r) THEN "point"
        ELSE "empty"

validateGeometry(geometry) ==
    [isValid |-> isValid(geometry),
     isSimple |-> isSimple(geometry),
     selfIntersect |-> getSelfIntersections(geometry)]

----------------------------------------------------------------------------
(* Polygon Assembler: turf lineString, lineToPolygon, geojson-rewind *)

\* A call that may throw returns [ok, val]: ok = FALSE is the throw.
Ok(v) == [ok |-> TRUE, val |-> v]
Throw(kind) == [ok |-> FALSE, val |-> kind]

\* turf lineString: at least two positions.
createLineString(coordinates) ==
    IF Len(coordinates) < 2 THEN Throw("TurfError") ELSE Ok(coordinates)

autoCompleteCoordsNever(coords) == coords

\* lineToPolygon, autoComplete: the first position is appended when the last
\* one differs from it.
autoCompleteCoords(coords) ==
    IF coords[1] # Last(coords) THEN Append(coords, coords[1]) ELSE coords

\* turf polygon: a ring has 4 or more positions, the first equal to the last.
lineToPolygon(coords) ==
    LET ring == autoCompleteCoords(coords)
    IN  IF Len(ring) < 4 \/ ring[1] # Last(ring) THEN Throw("TurfError") ELSE Ok(ring)

\* Twice the signed area as geojson-rewind sums it: positive for a clockwise
\* ring.
RECURSIVE ringAreaSum(_, _)
ringAreaSum(ring, i) ==
    IF i > Len(ring) THEN 0
    ELSE LET j == IF i = 1 THEN Len(ring) ELSE i - 1
         IN  (ring[i][1] - ring[j][1]) * (ring[j][2] + ring[i][2]) + ringAreaSum(ring, i + 1)

\* As rewind, leaving every ring as it is.
rewindNever(ring) == ring

\* rewind(polygon, false): the exterior ring is reversed when its area sum is
\* >= 0 (clockwise, or no area).
rewind(ring) == IF ringAreaSum(ring, 1) >= 0 THEN Reverse(ring) ELSE ring

\* Twice the counter-clockwise signed area of a ring.
SignedArea2(ring) == -ringAreaSum(ring, 1)

\* turf area of a polygon (twice the enclosed planar area, in scaled units).
getArea(ring) == Abs(ringAreaSum(ring, 1))

----------------------------------------------------------------------------
(* Repair stages: removeDuplicates, removeOverlapPoints *)

\* distance(coord, value) < 0.001 for coordinates given in 1/scale of a second.
isNear(p, q, scale) == distance2(p, q) < DupRadius2 * scale * scale

\* As isDuplicate, comparing with the point before in the input only.
isDuplicateOfPrevious(coordinates, i, processed, scale) ==
    i > 1 /\ isNear(coordinates[i - 1], coordinates[i], scale)

\* removeDuplicates: the `exists` test against the points kept so far.
isDuplicate(coordinates, i, processed, scale) ==
    \E k \in 1 .. Len(processed) : isNear(processed[k], coordinates[i], scale)

RECURSIVE removeDuplicatesFrom(_, _, _, _)
removeDuplicatesFrom(coordinates, i, processed, scale) ==
    IF i > Len(coordinates) THEN processed
    ELSE removeDuplicatesFrom(coordinates, i + 1,
                              IF isDuplicate(coordinates, i, processed, scale)
                              THEN processed
                              ELSE Append(processed, coordinates[i]),
                              scale)

\* As removeDuplicatesAt, removing nothing.
removeDuplicatesNone(coordinates, scale) == coordinates

\* removeDuplicates on coordinates given in 1/scale of a second.
removeDuplicatesAt(coordinates, scale) == removeDuplicatesFrom(coordinates, 1, << >>, scale)

removeDuplicates(coordinates) == removeDuplicatesAt(coordinates, 1)

\* The opposite bearing as the code computes it: the first branch of its
\* conditional can never be taken.
oppBearingOf(nextBearing) ==
    IF nextBearing > 360 /\ nextBearing < 180 THEN nextBearing + 180 ELSE nextBearing - 180

\* The bearing to the next point, 360 standing for 0.
nextBearingOf(coord, nextPoint) ==
    LET b == calcBearingInt(coord, nextPoint) IN IF b = 0 THEN 360 ELSE b

\* lastBearing is {} for null, {b} otherwise.
RECURSIVE removeOverlapFrom(_, _, _, _)
removeOverlapFrom(coordinates, index, fixedPoints, lastBearing) ==
    IF index > Len(coordinates) THEN fixedPoints
    ELSE IF index = Len(coordinates) THEN Append(fixedPoints, coordinates[index])
    ELSE LET coord == coordinates[index]
             nextBearing == nextBearingOf(coord, coordinates[index + 1])
             oppBearing == oppBearingOf(nextBearing)
         IN  IF lastBearing = {} \/ oppBearing \notin lastBearing
             THEN removeOverlapFrom(coordinates, index + 1, Append(fixedPoints, coord), {nextBearing})
             ELSE removeOverlapFrom(coordinates, index + 1, fixedPoints, lastBearing)

\* As removeOverlapPoints, begun at the second point.
removeOverlapPointsAfterFirst(coordinates) == removeOverlapFrom(coordinates, 2, << >>, {})

removeOverlapPoints(coordinates) == removeOverlapFrom(coordinates, 1, << >>, {})

----------------------------------------------------------------------------
(* Split-and-select: turf unkinkPolygon (simplepolygon) and getPolygon *)

\* Edge k of a closed ring runs from ring[k] to ring[k + 1], k = 1 .. n.
EdgeDir(ring, k) == <<ring[k + 1][1] - ring[k][1], ring[k + 1][2] - ring[k][2]>>
Cross2(u, v) == u[1] * v[2] - u[2] * v[1]
Dot2(u, v) == u[1] * v[1] + u[2] * v[2]

\* The pairs of edges that cross at a point interior to both (isects: the
\* fractions along both edges lie strictly between 0 and 1).
Crossings(ring) ==
    {c \in (1 .. Len(ring) - 1) \X (1 .. Len(ring) - 1) :
        c[1] < c[2] /\ SegProper(ring[c[1]], ring[c[1] + 1], ring[c[2]], ring[c[2] + 1])}

\* The crossing of edges c[1] and c[2] lies at ring[c[1]] + (num / den) * dir.
CrossDen(ring, c) == Abs(Cross2(EdgeDir(ring, c[1]), EdgeDir(ring, c[2])))
CrossNum(ring, c) ==
    LET d == Cross2(EdgeDir(ring, c[1]), EdgeDir(ring, c[2]))
        w == <<ring[c[2]][1] - ring[c[1]][1], ring[c[2]][2] - ring[c[1]][2]>>
    IN  Sgn(d) * Cross2(w, EdgeDir(ring, c[2]))

\* The common denominator of all crossing points of the ring.
CrossScale(ring) == LcmOfSet({CrossDen(ring, c) : c \in Crossings(ring)})

ScalePoint(p, scale) == <<p[1] * scale, p[2] * scale>>

\* The crossing point, multiplied by scale.
CrossPoint(ring, c, scale) ==
    LET f == (scale \div CrossDen(ring, c)) * CrossNum(ring, c)
        d == EdgeDir(ring, c[1])
    IN  <<ring[c[1]][1] * scale + f * d[1], ring[c[1]][2] * scale + f * d[2]>>

\* How far along edge k the scaled point pt lies (0 at the edge's start).
PosOnEdge(ring, k, pt, scale) ==
    Dot2(<<pt[1] - ring[k][1] * scale, pt[2] - ring[k][2] * scale>>, EdgeDir(ring, k))

\* A crossing as the walk sees it: its two edges, its point and how far
\* along each edge it lies.
MkCrossing(ring, scale, c, pt) ==
    [e1 |-> c[1], e2 |-> c[2], pt |-> pt,
     pos1 |-> PosOnEdge(ring, c[1], pt, scale),
     pos2 |-> PosOnEdge(ring, c[2], pt, scale)]

CrossingTable(ring, scale) ==
    {MkCrossing(ring, scale, c, CrossPoint(ring, c, scale)) : c \in Crossings(ring)}

PosOf(x, k) == IF x.e1 = k THEN x.pos1 ELSE x.pos2
OtherEdge(x, k) == IF x.e1 = k THEN x.e2 ELSE x.e1

\* The crossings on edge st[1] beyond position st[2].
CrossingsAhead(xs, st) ==
    {x \in xs : st[1] \in {x.e1, x.e2} /\ PosOf(x, st[1]) > st[2]}

NearestCrossing(ahead, k) ==
    CHOOSE x \in ahead : \A y \in ahead : PosOf(x, k) <= PosOf(y, k)

\* At a crossing the walk changes to the crossing edge; the way not taken
\* (straight on) is queued.
CrossStep(k, x) ==
    [pt |-> x.pt,
     next |-> <<OtherEdge(x, k), PosOf(x, OtherEdge(x, k))>>,
     queued |-> << <<k, PosOf(x, k)>> >>]

\* Without a crossing ahead the walk reaches the edge's end vertex.
VertexStep(ring, scale, k) ==
    [pt |-> ScalePoint(ring[k + 1], scale),
     next |-> <<(k % (Len(ring) - 1)) + 1, 0>>,
     queued |-> << >>]

WalkStepFrom(ring, scale, k, ahead) ==
    IF ahead = {} THEN VertexStep(ring, scale, k)
    ELSE CrossStep(k, NearestCrossing(ahead, k))

\* One step of the walk from state st = <<edge, position>>.
WalkStep(ring, scale, xs, st) == WalkStepFrom(ring, scale, st[1], CrossingsAhead(xs, st))

\* The walk's record after a step: points, states left from, branches queued.
WalkAcc(acc, st, step) ==
    [pts |-> Append(acc.pts, step.pt),
     left |-> acc.left \cup {st},
     queued |-> acc.queued \o step.queued]

CloseWalk(acc, pt) == [acc EXCEPT !.pts = <<pt>> \o acc.pts]

\* A walk that comes back to a state other than its start goes round for ever.
EndlessWalk == [pts |-> << >>, left |-> {}, queued |-> << >>]

\* Walks one output ring from state start; returns its points (a closed
\* ring), the states it left from and the branches it queued.  The loop ends
\* when the walk is back at start; where several crossings fall on one point
\* (edges that overlap) it may never be.
RECURSIVE WalkRing(_, _, _, _, _, _)
RECURSIVE WalkRingOn(_, _, _, _, _, _, _)
WalkRingOn(ring, scale, xs, start, st, acc, step) ==
    IF step.next = start
    THEN CloseWalk(WalkAcc(acc, st, step), step.pt)
    ELSE IF step.next \in acc.left \cup {st}
    THEN EndlessWalk
    ELSE WalkRing(ring, scale, xs, start, step.next, WalkAcc(acc, st, step))

WalkRing(ring, scale, xs, start, st, acc) ==
    WalkRingOn(ring, scale, xs, start, st, acc, WalkStep(ring, scale, xs, st))

EmptyWalk == [pts |-> << >>, left |-> {}, queued |-> << >>]

\* Pops the queue (last in, first out) until it is empty; a queued state a
\* ring has already left from is no longer walkable.  No rings at all stands
\* for a walk that does not end.
RECURSIVE WalkAll(_, _, _, _, _, _)
RECURSIVE WalkAllWith(_, _, _, _, _, _, _)
WalkAllWith(ring, scale, xs, rest, left, out, w) ==
    IF w.pts = << >> THEN << >>
    ELSE WalkAll(ring, scale, xs, rest \o w.queued, left \cup w.left, Append(out, w.pts))

WalkAll(ring, scale, xs, queue, left, out) ==
    IF queue = << >> THEN out
    ELSE IF Last(queue) \in left
    THEN WalkAll(ring, scale, xs, SubSeq(queue, 1, Len(queue) - 1), left, out)
    ELSE WalkAllWith(ring, scale, xs, SubSeq(queue, 1, Len(queue) - 1), left, out,
                     WalkRing(ring, scale, xs, Last(queue), Last(queue), EmptyWalk))

\* The first vertex with the least x (the walk starts at the outermost vertex).
StartVertex(ring) ==
    CHOOSE k \in 1 .. Len(ring) - 1 :
        \A j \in 1 .. Len(ring) - 1 :
            ring[k][1] < ring[j][1] \/ (ring[k][1] = ring[j][1] /\ k <= j)

unkinkScaled(ring, scale) ==
    [features |-> WalkAll(ring, scale, CrossingTable(ring, scale),
                          << <<StartVertex(ring), 0>> >>, {}, << >>),
     scale |-> scale]

\* unkinkPolygon of a closed ring with unique vertices: the ring itself when
\* no two edges cross, else the simple rings the walk cuts it into.  Returns
\* the rings (in output order) and the scale of their coordinates.
unkinkPolygon(ring) ==
    IF Crossings(ring) = {} THEN [features |-> <<ring>>, scale |-> 1]
    ELSE unkinkScaled(ring, CrossScale(ring))

\* getPolygon: the last feature of the largest area (area >= polygonArea,
\* polygonArea starting as null, which compares as 0).
RECURSIVE getPolygonFrom(_, _, _, _)
getPolygonFrom(features, i, polygon, polygonArea) ==
    IF i > Len(features) THEN polygon
    ELSE LET area == getArea(features[i])
         IN  IF area >= polygonArea
             THEN getPolygonFrom(features, i + 1, features[i], area)
             ELSE getPolygonFrom(features, i + 1, polygon, polygonArea)

getPolygonFirst(features) == features[1]

getPolygon(features) == getPolygonFrom(features, 1, << >>, 0)

\* turf envelope of the points: the bounding box as a closed ring, from the
\* low-left corner counter-clockwise (bboxPolygon).
envelope(coordinates) ==
    LET xs == {coordinates[i][1] : i \in 1 .. Len(coordinates)}
        ys == {coordinates[i][2] : i \in 1 .. Len(coordinates)}
        west == CHOOSE x \in xs : \A y \in xs : x <= y
        east == CHOOSE x \in xs : \A y \in xs : x >= y
        south == CHOOSE x \in ys : \A y \in ys : x <= y
        north == CHOOSE x \in ys : \A y \in ys : x >= y
    IN  << <<west, south>>, <<east, south>>, <<east, north>>, <<west, north>>, <<west, south>> >>

\* The largest of the unkinked features, as a geometry.
largestFeature(unkinked) == Ok(Geometry(getPolygon(unkinked.features), unkinked.scale))

selectFrom(closed) ==
    IF closed.ok THEN largestFeature(unkinkPolygon(closed.val)) ELSE closed

closeLineString(linestring) ==
    IF linestring.ok THEN lineToPolygon(linestring.val) ELSE linestring

\* unkinkPolygon comes back from its walk.
unkinkReturns(closed) == closed.ok => unkinkPolygon(closed.val).features # << >>

\* The try block of createFixedPolygon after overlap removal comes to an end.
splitReturns(coordinates) == unkinkReturns(closeLineString(createLineString(coordinates)))

\* The try block of createFixedPolygon after overlap removal: line string,
\* polygon, unkink, largest feature.  Throws when the line string or the
\* polygon cannot be built.
splitAndSelect(coordinates) == selectFrom(closeLineString(createLineString(coordinates)))

----------------------------------------------------------------------------
(* Coordinate Decoder and line segments *)

\* A coordinate token "DDMMSS[NS] DDDMMSS[EW]" is a record of its fields:
\* given tells whether the value is there at all (not null or undefined),
\* wellFormed whether its digits and hemisphere letters are as
\* REGEX_COORDINATES asks, sep is the white space between the two halves.
Token(latSec, lonSec) ==
    [given |-> TRUE, wellFormed |-> TRUE, sep |-> " ",
     lat |-> [deg |-> 0, min |-> 0, sec |-> latSec, dir |-> "N"],
     lon |-> [deg |-> 0, min |-> 0, sec |-> lonSec, dir |-> "E"]]

MalformedToken == [Token(0, 0) EXCEPT !.wellFormed = FALSE]

\* A coordinate that is null or undefined.
NoToken == [Token(0, 0) EXCEPT !.given = FALSE, !.wellFormed = FALSE]

Tokens == {Token(p[2], p[1]) : p \in Points} \cup {MalformedToken}

\* REGEX_COORDINATES.test(token): /^[0-9]{6}[NS]\s+[0-9]{7}[EW]$/
matchesCoordinates(token) ==
    token.given /\ token.wellFormed /\ token.sep \in {" ", "  ", "\t"}

\* Degrees, minutes and seconds as seconds of arc, signed by the hemisphere.
DmsSeconds(c) ==
    (IF c.dir \in {"S", "W"} THEN -1 ELSE 1) * ((c.deg * 60 + c.min) * 60 + c.sec)

\* coordinate-parser on "DD:MM:SS N,DDD:MM:SS E": [longitude, latitude].
toLonLat(token) == <<DmsSeconds(token.lon), DmsSeconds(token.lat)>>

\* transformCoordinates: the token is split at a single blank; split at
\* anything else, a half is empty or missing and the catch block rethrows.
transformCoordinates(token) ==
    IF token.sep = " " THEN Ok(toLonLat(token)) ELSE Throw("TransformFailed")

\* createCoordinatesFromLine, one coordinate of the loop.
lineCoordinate(token) ==
    IF ~ matchesCoordinates(token) THEN Throw("InvalidCoordinate")
    ELSE transformCoordinates(token)

\* createCoordinatesFromLine: an empty line is rejected; the first
\* coordinate that is refused ends the loop.
createCoordinatesFromLine(segment) ==
    IF Len(segment.line) = 0 THEN Throw("InvalidLine")
    ELSE LET bad == {i \in 1 .. Len(segment.line) : ~ lineCoordinate(segment.line[i]).ok}
         IN  IF bad # {}
             THEN lineCoordinate(segment.line[CHOOSE i \in bad : \A j \in bad : i <= j])
             ELSE Ok([i \in 1 .. Len(segment.line) |-> toLonLat(segment.line[i])])

----------------------------------------------------------------------------
(* Arc Tessellator: turf bearing, destination, lineArc and circle.
   Bearings are whole tenths of a degree.  The centre lies on the equator and
   the points it is used with lie on the meridian or the equator through it,
   so that the great-circle bearings are exactly 0, 90, 180 and -90 degrees.
   A point the tessellator puts elsewhere on the circle is written
   <<"at", centre, radius, bearing>>. *)

FullTurn == 10 * 360

\* Seconds of arc in a nautical mile (1.852 km; a minute of arc is 1.853 km).
SecondsPerNM == 60

IsLonLat(p) == Len(p) = 2

\* convertAngleTo360
convertAngleTo360(bearing) == bearing % FullTurn

\* destination(centre, radius, bearing)
destination(centre, radius, bearing) ==
    LET b == convertAngleTo360(bearing)
    IN  CASE b = 0    -> <<centre[1], centre[2] + radius>>
          [] b = 900  -> <<centre[1] + radius, centre[2]>>
          [] b = 1800 -> <<centre[1], centre[2] - radius>>
          [] b = 2700 -> <<centre[1] - radius, centre[2]>>
          [] OTHER    -> <<"at", centre, radius, b>>

\* calcBearing(centre, point), between -180 and 180 degrees.
calcBearing(centre, point) ==
    IF IsLonLat(point)
    THEN CASE point[1] = centre[1] /\ point[2] >= centre[2] -> 0
           [] point[1] = centre[1] /\ point[2] < centre[2] -> 1800
           [] point[2] = centre[2] /\ point[1] > centre[1] -> 900
           [] point[2] = centre[2] /\ point[1] < centre[1] -> -900
    ELSE IF point[4] > 1800 THEN point[4] - FullTurn ELSE point[4]

\* circle(centre, radius, {steps}): counter-clockwise from due north, closed.
circleCoordinates(centre, radius, steps) ==
    [i \in 1 .. steps + 1 |->
        destination(centre, radius,
                    -(IF i = steps + 1 THEN 0 ELSE i - 1) * (FullTurn \div steps))]

\* lineArc, after the loop: if (alfa > arcEndDegree) the point at
\* arcEndDegree is appended.
arcEndReached(alfa, arcEndDegree) == alfa > arcEndDegree

\* lineArc's loop and the point after it.
arcCoordinates(centre, radius, arcStartDegree, arcEndDegree, steps) ==
    LET step == FullTurn \div steps
        n == (arcEndDegree - arcStartDegree + step - 1) \div step
    IN  [i \in 1 .. n |-> destination(centre, radius, arcStartDegree + (i - 1) * step)]
        \o (IF arcEndReached(arcStartDegree + n * step, arcEndDegree)
            THEN <<destination(centre, radius, arcEndDegree)>>
            ELSE << >>)

\* lineArc(centre, radius, bearing1, bearing2, {steps}): clockwise from
\* bearing1 to bearing2; the whole circle when the two are the same.
lineArc(centre, radius, bearing1, bearing2, steps) ==
    LET angle1 == convertAngleTo360(bearing1)
        angle2 == convertAngleTo360(bearing2)
    IN  IF angle1 = angle2
        THEN createLineString(circleCoordinates(centre, radius, steps))
        ELSE createLineString(arcCoordinates(centre, radius, angle1,
                                             IF angle1 < angle2 THEN angle2 ELSE angle2 + FullTurn,
                                             steps))

\* A radius "<number> NM": given, wellFormed (REGEX_ARC_RADIUS) and the
\* number parseFloat reads.
Radius(value) == [given |-> TRUE, wellFormed |-> TRUE, value |-> value]
MalformedRadius == [Radius(0) EXCEPT !.wellFormed = FALSE]
NoRadius == [Radius(0) EXCEPT !.given = FALSE, !.wellFormed = FALSE]

\* parseFloat(radiusValue) * 1.852 km, in seconds of arc.
radiusSeconds(radius) == radius.value * SecondsPerNM

\* As arcFailure, the radius looked at before the direction.
arcFailureRadiusFirst(arc, hasLast) ==
    CASE ~ hasLast -> "ArcMissingPrecedingPoint"
      [] arc.dir = "null" \/ ~ arc.radius.given \/ ~ arc.centre.given \/ ~ arc.to.given
            -> "InvalidArc"
      [] ~ arc.radius.wellFormed -> "InvalidArcRadius"
      [] arc.dir \notin {"cw", "ccw"} -> "InvalidArcDirection"
      [] ~ matchesCoordinates(arc.centre) -> "InvalidArcCentre"
      [] ~ matchesCoordinates(arc.to) -> "InvalidArcTo"
      [] OTHER -> "none"

\* As arcFailure, the missing preceding point looked for after the fields.
arcFailureFieldsFirst(arc, hasLast) ==
    CASE arc.dir = "null" \/ ~ arc.radius.given \/ ~ arc.centre.given \/ ~ arc.to.given
            -> "InvalidArc"
      [] arc.dir \notin {"cw", "ccw"} -> "InvalidArcDirection"
      [] ~ arc.radius.wellFormed -> "InvalidArcRadius"
      [] ~ matchesCoordinates(arc.centre) -> "InvalidArcCentre"
      [] ~ matchesCoordinates(arc.to) -> "InvalidArcTo"
      [] ~ hasLast -> "ArcMissingPrecedingPoint"
      [] OTHER -> "none"

\* createCoordinatesFromArc: the checks before the arc is computed, in the
\* order of the code.
arcFailure(arc, hasLast) ==
    CASE ~ hasLast -> "ArcMissingPrecedingPoint"
      [] arc.dir = "null" \/ ~ arc.radius.given \/ ~ arc.centre.given \/ ~ arc.to.given
            -> "InvalidArc"
      [] arc.dir \notin {"cw", "ccw"} -> "InvalidArcDirection"
      [] ~ arc.radius.wellFormed -> "InvalidArcRadius"
      [] ~ matchesCoordinates(arc.centre) -> "InvalidArcCentre"
      [] ~ matchesCoordinates(arc.to) -> "InvalidArcTo"
      [] OTHER -> "none"

\* createCoordinatesFromArc from startPoint on: for a counter-clockwise arc
\* start and end are swapped and the coordinates reversed.
arcFrom(arc, lastCoord, centerPoint, toPoint, steps) ==
    LET isClockwise == arc.dir = "cw"
        startPoint == IF isClockwise THEN lastCoord ELSE toPoint
        endPoint == IF isClockwise THEN toPoint ELSE lastCoord
        line == lineArc(centerPoint, radiusSeconds(arc.radius),
                        calcBearing(centerPoint, startPoint),
                        calcBearing(centerPoint, endPoint), steps)
    IN  IF ~ line.ok THEN line
        ELSE IF isClockwise THEN line ELSE Ok(Reverse(line.val))

createCoordinatesFromArc(arc, accumulated, steps) ==
    LET failure == arcFailure(arc, accumulated # << >>)
    IN  IF failure # "none" THEN Throw(failure)
        ELSE IF ~ transformCoordinates(arc.centre).ok THEN transformCoordinates(arc.centre)
        ELSE IF ~ transformCoordinates(arc.to).ok THEN transformCoordinates(arc.to)
        ELSE arcFrom(arc, Last(accumulated), toLonLat(arc.centre), toLonLat(arc.to), steps)

\* createCoordinatesFromCircle
createCoordinatesFromCircle(circle, steps) ==
    CASE ~ circle.radius.given \/ ~ circle.centre.given -> Throw("InvalidArc")
      [] ~ circle.radius.wellFormed -> Throw("InvalidArcRadius")
      [] ~ matchesCoordinates(circle.centre) -> Throw("InvalidArcCentre")
      [] ~ transformCoordinates(circle.centre).ok -> transformCoordinates(circle.centre)
      [] OTHER -> Ok(circleCoordinates(toLonLat(circle.centre), radiusSeconds(circle.radius),
                                       steps))

\* createPolygonGeometry's switch: the coordinates a segment resolves to
\* when the coordinates accumulated before it are previous.
segmentCoordinates(segment, previous, steps) ==
    CASE segment.type = "line" -> createCoordinatesFromLine(segment)
      [] segment.type = "arc" -> createCoordinatesFromArc(segment.arc, previous, steps)
      [] segment.type = "circle" -> createCoordinatesFromCircle(segment.circle, steps)
      [] OTHER -> Throw("UnsupportedBoundaryType")

rewindPolygon(closed) ==
    IF closed.ok THEN Ok(Geometry(rewind(closed.val), 1)) ELSE closed

\* The tail of createPolygonGeometry: line string, auto-completed polygon,
\* rewind to the right-hand rule.
assemblePolygon(coordinates) == rewindPolygon(closeLineString(createLineString(coordinates)))

\* this.boundaryCoordinates after a createPolygonGeometry that threw: closed
\* by lineToPolygon unless lineString had refused it before.
closedInPlace(coordinates) ==
    IF createLineString(coordinates).ok THEN autoCompleteCoords(coordinates) ELSE coordinates

needsFixAlways(geometry) == TRUE

\* fixGeometry's test: the repair runs only on a geometry that is not valid,
\* not simple or has a self-intersection.
needsFix(geometry) ==
    LET v == validateGeometry(geometry)
    IN  ~ v.isValid \/ ~ v.isSimple \/ v.selfIntersect # "none"

----------------------------------------------------------------------------
(* The converter *)

VARIABLES
    config,               \* this.config: validateGeometries, fixGeometries
    ident,                \* this.ident
    seqno,                \* this.seqno
    boundaryCoordinates,  \* this.boundaryCoordinates
    boundary,             \* createPolygonGeometry's boundary
    resolved,             \* the number of its segments resolved so far
    geometry,             \* createAirspaceFeatures' geometry
    fixInput,             \* the geometry fixGeometry was called with
    coordinates,          \* createFixedPolygon's coordinates
    stages,               \* the repair stages run so far for this geometry
    features,             \* the features pushed
    error,                \* the error thrown, if any
    pc,                   \* where the conversion of the geometry stands
    definitions,          \* the geometry definitions of the airspace begun so far
    calls,                \* how the earlier calls of convert on this instance ended
    members,              \* the airspace members of the AIXM document read
    geojson,              \* AixmConverter's this.geojson
    tasks                 \* the calls in flight on one instance, when calls overlap

vars == <<config, ident, seqno, boundaryCoordinates, boundary, resolved, geometry,
          fixInput, coordinates, stages, features, error, pc, definitions, calls,
          members, geojson, tasks>>

\* The defaults of geometryDetail and strictSchemaValidation.
Configs == [validateGeometries : BOOLEAN, fixGeometries : BOOLEAN,
            geometryDetail : {100}, strictSchemaValidation : {FALSE}]

\* this.geojson = null
NoGeojson == [features |-> << >>, given |-> FALSE, valid |-> FALSE]

\* The name of the airspace converted.
AirspaceName == "A1"

LineSegment(tokens) == [type |-> "line", line |-> tokens]
UnsupportedSegment == [type |-> "polyline", line |-> << >>]

TokenSeqs == UNION {[1 .. n -> Tokens] : n \in 0 .. MaxPts}

\* The boundaries converted: one segment, a line or a segment of another type.
Boundaries == {<<LineSegment(t)>> : t \in TokenSeqs} \cup {<<UnsupportedSegment>>}

NoError == [kind |-> "none", ident |-> "null", seqno |-> "null", selfIntersect |-> "none"]

\* An error whose message names the airspace and the sequence number.
TaggedError(kind, witness) ==
    [kind |-> kind, ident |-> ident, seqno |-> seqno, selfIntersect |-> witness]

\* An error thrown by a library, passed on as it is.
PlainError(kind) == [NoError EXCEPT !.kind = kind]

Init ==
    /\ config \in Configs
    /\ ident = "null"
    /\ seqno = "null"
    /\ boundaryCoordinates = << >>
    /\ boundary = << >>
    /\ resolved = 0
    /\ geometry = NoGeometry
    /\ fixInput = NoGeometry
    /\ coordinates = << >>
    /\ stages = << >>
    /\ features = << >>
    /\ error = NoError
    /\ pc = "idle"
    /\ definitions = 0
    /\ calls = << >>
    /\ members = << >>
    /\ geojson = NoGeojson
    /\ tasks = << >>

\* createAirspaceFeatures up to the call of createPolygonGeometry.
BeginWith(boundaries) ==
    /\ pc = "idle"
    /\ \E b \in boundaries : boundary' = b
    /\ ident' = AirspaceName
    /\ definitions' = 1
    /\ seqno' = 1
    /\ resolved' = 0
    /\ pc' = "resolve"
    /\ UNCHANGED <<tasks, members, geojson, calls, config, boundaryCoordinates, geometry, fixInput, coordinates,
                   stages, features, error>>

BeginGeometry == BeginWith(Boundaries)

Fail(e) ==
    /\ error' = e
    /\ pc' = "failed"

\* createPolygonGeometry, case 'line'.
ResolveLine ==
    /\ pc = "resolve"
    /\ resolved < Len(boundary)
    /\ boundary[resolved + 1].type = "line"
    /\ LET r == createCoordinatesFromLine(boundary[resolved + 1])
       IN  IF r.ok
           THEN /\ boundaryCoordinates' = boundaryCoordinates \o r.val
                /\ resolved' = resolved + 1
                /\ UNCHANGED <<error, pc>>
           ELSE /\ Fail(TaggedError(r.val, "none"))
                /\ UNCHANGED <<boundaryCoordinates, resolved>>
    /\ UNCHANGED <<tasks, members, geojson, definitions, calls, config, ident, seqno, boundary, geometry, fixInput, coordinates, stages,
                   features>>

\* As ResolveUnsupported, the segment passed over.
ResolveUnsupportedSkipping ==
    /\ pc = "resolve"
    /\ resolved < Len(boundary)
    /\ boundary[resolved + 1].type \notin {"line", "arc", "circle"}
    /\ resolved' = resolved + 1
    /\ UNCHANGED <<tasks, members, geojson, definitions, calls, config, ident, seqno,
                   boundaryCoordinates, boundary, geometry, fixInput, coordinates, stages,
                   features, error, pc>>

\* createPolygonGeometry, default case.
ResolveUnsupported ==
    /\ pc = "resolve"
    /\ resolved < Len(boundary)
    /\ boundary[resolved + 1].type \notin {"line", "arc", "circle"}
    /\ Fail(TaggedError("UnsupportedBoundaryType", "none"))
    /\ UNCHANGED <<tasks, members, geojson, definitions, calls, config, ident, seqno, boundaryCoordinates, boundary, resolved, geometry,
                   fixInput, coordinates, stages, features>>

\* createPolygonGeometry once every segment is resolved.  lineToPolygon is
\* called with mutate: true and rewind reverses in place, so the ring is the
\* array this.boundaryCoordinates; when the polygon is refused the array has
\* already been closed.
AssemblePolygon ==
    /\ pc = "resolve"
    /\ resolved = Len(boundary)
    /\ LET r == assemblePolygon(boundaryCoordinates)
       IN  IF r.ok
           THEN /\ geometry' = r.val
                /\ boundaryCoordinates' = r.val.coords
                /\ pc' = "assembled"
                /\ UNCHANGED error
           ELSE /\ Fail(PlainError(r.val))
                /\ boundaryCoordinates' = closedInPlace(boundaryCoordinates)
                /\ UNCHANGED geometry
    /\ UNCHANGED <<tasks, members, geojson, definitions, calls, config, ident, seqno, boundary, resolved, fixInput, coordinates, stages,
                   features>>

SkipFixRepairing ==
    /\ pc = "assembled"
    /\ ~ config.fixGeometries
    /\ fixInput' = geometry
    /\ coordinates' = geometry.coords
    /\ pc' = "dedup"
    /\ UNCHANGED <<tasks, members, geojson, definitions, calls, config, ident, seqno, boundaryCoordinates, boundary, resolved, geometry,
                   stages, features, error>>

\* fixGeometries is off: fixGeometry is not called.
SkipFix ==
    /\ pc = "assembled"
    /\ ~ config.fixGeometries
    /\ pc' = "validate"
    /\ UNCHANGED <<tasks, members, geojson, definitions, calls, config, ident, seqno, boundaryCoordinates, boundary, resolved, geometry, fixInput,
                   coordinates, stages, features, error>>

\* fixGeometry on a geometry that needs no repair: returned as it is.
FixGeometryUnchanged ==
    /\ pc = "assembled"
    /\ config.fixGeometries
    /\ ~ needsFix(geometry)
    /\ fixInput' = geometry
    /\ pc' = "validate"
    /\ UNCHANGED <<tasks, members, geojson, definitions, calls, config, ident, seqno, boundaryCoordinates, boundary, resolved, geometry,
                   coordinates, stages, features, error>>

\* fixGeometry calls createFixedPolygon with the ring's coordinates.
FixGeometryStart ==
    /\ pc = "assembled"
    /\ config.fixGeometries
    /\ needsFix(geometry)
    /\ fixInput' = geometry
    /\ coordinates' = geometry.coords
    /\ pc' = "dedup"
    /\ UNCHANGED <<tasks, members, geojson, definitions, calls, config, ident, seqno, boundaryCoordinates, boundary, resolved, geometry,
                   stages, features, error>>

\* createFixedPolygon: removeDuplicates, before the try block.
StageDedup ==
    /\ pc = "dedup"
    /\ coordinates' = removeDuplicates(coordinates)
    /\ stages' = Append(stages, "dedup")
    /\ pc' = "overlap"
    /\ UNCHANGED <<tasks, members, geojson, definitions, calls, config, ident, seqno, boundaryCoordinates, boundary, resolved, geometry, fixInput,
                   features, error>>

\* createFixedPolygon: removeOverlapPoints, first statement of the try block.
StageOverlap ==
    /\ pc = "overlap"
    /\ coordinates' = removeOverlapPoints(coordinates)
    /\ stages' = Append(stages, "overlap")
    /\ pc' = "split"
    /\ UNCHANGED <<tasks, members, geojson, definitions, calls, config, ident, seqno, boundaryCoordinates, boundary, resolved, geometry, fixInput,
                   features, error>>

\* createFixedPolygon: the rest of the try block; a throw leads to the catch.
StageSplit ==
    /\ pc = "split"
    /\ splitReturns(coordinates)
    /\ stages' = Append(stages, "split")
    /\ LET r == splitAndSelect(coordinates)
       IN  IF r.ok
           THEN geometry' = r.val /\ pc' = "validate"
           ELSE pc' = "envelope" /\ UNCHANGED geometry
    /\ UNCHANGED <<tasks, members, geojson, definitions, calls, config, ident, seqno, boundaryCoordinates, boundary, resolved, fixInput,
                   coordinates, features, error>>

StageEnvelopeOverInput ==
    /\ pc = "envelope"
    /\ stages' = Append(stages, "envelope")
    /\ geometry' = Geometry(envelope(fixInput.coords), 1)
    /\ pc' = "validate"
    /\ UNCHANGED <<tasks, members, geojson, definitions, calls, config, ident, seqno, boundaryCoordinates, boundary, resolved, fixInput,
                   coordinates, features, error>>

\* createFixedPolygon: the catch block.
StageEnvelope ==
    /\ pc = "envelope"
    /\ stages' = Append(stages, "envelope")
    /\ geometry' = Geometry(envelope(coordinates), 1)
    /\ pc' = "validate"
    /\ UNCHANGED <<tasks, members, geojson, definitions, calls, config, ident, seqno, boundaryCoordinates, boundary, resolved, fixInput,
                   coordinates, features, error>>

\* validateGeometries is off.
SkipValidate ==
    /\ pc = "validate"
    /\ ~ config.validateGeometries
    /\ pc' = "emit"
    /\ UNCHANGED <<tasks, members, geojson, definitions, calls, config, ident, seqno, boundaryCoordinates, boundary, resolved, geometry, fixInput,
                   coordinates, stages, features, error>>

ValidateOkUnchecked ==
    /\ pc = "validate"
    /\ config.validateGeometries
    /\ pc' = "emit"
    /\ UNCHANGED <<tasks, members, geojson, definitions, calls, config, ident, seqno, boundaryCoordinates, boundary, resolved, geometry, fixInput,
                   coordinates, stages, features, error>>

\* validateGeometries is on and the geometry is valid.
ValidateOk ==
    /\ pc = "validate"
    /\ config.validateGeometries
    /\ validateGeometry(geometry).isValid
    /\ pc' = "emit"
    /\ UNCHANGED <<tasks, members, geojson, definitions, calls, config, ident, seqno, boundaryCoordinates, boundary, resolved, geometry, fixInput,
                   coordinates, stages, features, error>>

\* validateGeometries is on and the geometry is not valid: the error carries
\* the self-intersection when validateGeometry returned one.
ValidateFail ==
    /\ pc = "validate"
    /\ config.validateGeometries
    /\ ~ validateGeometry(geometry).isValid
    /\ Fail(TaggedError("InvalidGeometry", validateGeometry(geometry).selfIntersect))
    /\ UNCHANGED <<tasks, members, geojson, definitions, calls, config, ident, seqno, boundaryCoordinates, boundary, resolved, geometry, fixInput,
                   coordinates, stages, features>>

\* The feature is pushed and the converter's state reset.
EmitFeature ==
    /\ pc = "emit"
    /\ features' = Append(features, [geometry |-> geometry])
    /\ ident' = "null"
    /\ seqno' = "null"
    /\ boundaryCoordinates' = << >>
    /\ pc' = "done"
    /\ UNCHANGED <<tasks, members, geojson, definitions, calls, config, boundary, resolved, geometry, fixInput, coordinates, stages, error>>

Next ==
    \/ BeginGeometry
    \/ ResolveLine
    \/ ResolveUnsupported
    \/ AssemblePolygon
    \/ SkipFix
    \/ FixGeometryUnchanged
    \/ FixGeometryStart
    \/ StageDedup
    \/ StageOverlap
    \/ StageSplit
    \/ StageEnvelope
    \/ SkipValidate
    \/ ValidateOk
    \/ ValidateFail
    \/ EmitFeature

Spec == Init /\ [][Next]_vars

----------------------------------------------------------------------------
(* One converter instance over several geometry definitions and several calls
   of convert *)

\* A triangle, three points down a meridian, a crossing quadrilateral, a line
\* of two points, a malformed coordinate, and a line followed by a segment
\* of a type that is not supported.
LifeBoundaries ==
    {<<LineSegment(<<Token(0, 0), Token(0, 1), Token(1, 0)>>)>>,
     <<LineSegment(<<Token(2, 0), Token(1, 0), Token(0, 0)>>)>>,
     <<LineSegment(<<Token(0, 0), Token(1, 1), Token(0, 1), Token(1, 0)>>)>>,
     <<LineSegment(<<Token(0, 0), Token(0, 1)>>)>>,
     <<LineSegment(<<MalformedToken>>)>>,
     <<LineSegment(<<Token(0, 0), Token(0, 1)>>), UnsupportedSegment>>}

BeginLifeGeometry == BeginWith(LifeBoundaries)

\* createAirspaceFeatures: the loop goes on to the next geometry definition.
\* this.ident was set before the loop and reset after the feature before.
NextGeometry ==
    /\ pc = "done"
    /\ definitions < MaxDefinitions
    /\ \E b \in LifeBoundaries : boundary' = b
    /\ definitions' = definitions + 1
    /\ seqno' = definitions + 1
    /\ resolved' = 0
    /\ geometry' = NoGeometry
    /\ fixInput' = NoGeometry
    /\ coordinates' = << >>
    /\ stages' = << >>
    /\ pc' = "resolve"
    /\ UNCHANGED <<tasks, members, geojson, calls, config, ident, boundaryCoordinates, features, error>>

\* As ConvertAgain, without the reset.
ConvertAgainKeeping ==
    /\ pc \in {"done", "failed"}
    /\ Len(calls) < MaxCalls
    /\ calls' = Append(calls, [ended |-> pc, accumulated |-> Len(boundaryCoordinates),
                             type |-> "airspace", given |-> TRUE])
    /\ boundary' = << >>
    /\ resolved' = 0
    /\ geometry' = NoGeometry
    /\ fixInput' = NoGeometry
    /\ coordinates' = << >>
    /\ stages' = << >>
    /\ features' = << >>
    /\ error' = NoError
    /\ definitions' = 0
    /\ pc' = "idle"
    /\ UNCHANGED <<tasks, members, geojson, config, ident, seqno, boundaryCoordinates>>

\* convert is called again on the instance, after a call that returned or
\* one that threw: this.reset() comes first.
ConvertAgain ==
    /\ pc \in {"done", "failed"}
    /\ Len(calls) < MaxCalls
    /\ calls' = Append(calls, [ended |-> pc, accumulated |-> Len(boundaryCoordinates),
                             type |-> "airspace", given |-> TRUE])
    /\ ident' = "null"
    /\ seqno' = "null"
    /\ boundaryCoordinates' = << >>
    /\ boundary' = << >>
    /\ resolved' = 0
    /\ geometry' = NoGeometry
    /\ fixInput' = NoGeometry
    /\ coordinates' = << >>
    /\ stages' = << >>
    /\ features' = << >>
    /\ error' = NoError
    /\ definitions' = 0
    /\ pc' = "idle"
    /\ UNCHANGED <<tasks, members, geojson, config>>

LifeNext ==
    \/ BeginLifeGeometry
    \/ NextGeometry
    \/ ConvertAgain
    \/ ResolveLine
    \/ ResolveUnsupported
    \/ AssemblePolygon
    \/ SkipFix
    \/ FixGeometryUnchanged
    \/ FixGeometryStart
    \/ StageDedup
    \/ StageOverlap
    \/ StageSplit
    \/ StageEnvelope
    \/ SkipValidate
    \/ ValidateOk
    \/ ValidateFail
    \/ EmitFeature

LifeSpec == Init /\ [][LifeNext]_vars

----------------------------------------------------------------------------
(* The Boundary Resolver on lines, arcs and circles around one centre *)

\* The point k minutes of arc due north, east, south or west of 0N 0E.
AxisToken(dir, k) ==
    CASE dir = "N" -> [Token(0, 0) EXCEPT !.lat.min = k]
      [] dir = "S" -> [Token(0, 0) EXCEPT !.lat.min = k, !.lat.dir = "S"]
      [] dir = "E" -> [Token(0, 0) EXCEPT !.lon.min = k]
      [] dir = "W" -> [Token(0, 0) EXCEPT !.lon.min = k, !.lon.dir = "W"]

AxisTokens == {AxisToken(d, k) : d \in {"N", "E", "S", "W"}, k \in 1 .. MaxRadius}

CentreToken == Token(0, 0)

Radii == {Radius(k) : k \in 1 .. MaxRadius}

ArcSegment(dir, radius, centre, to) ==
    [type |-> "arc", arc |-> [dir |-> dir, radius |-> radius, centre |-> centre, to |-> to]]

CircleSegment(radius, centre) ==
    [type |-> "circle", circle |-> [radius |-> radius, centre |-> centre]]

\* Arcs with every field present and matching its pattern.
ValidArcs == {ArcSegment(d, r, CentreToken, t) : d \in {"cw", "ccw"}, r \in Radii, t \in AxisTokens}

\* Arcs with fields missing ("null" for dir) or not matching their pattern.
ArcSegments ==
    {ArcSegment(d, r, c, t) :
        d \in {"cw", "ccw", "left", "null"},
        r \in Radii \cup {MalformedRadius, NoRadius},
        c \in {CentreToken, MalformedToken, NoToken},
        t \in AxisTokens \cup {MalformedToken, NoToken}}

CircleSegments ==
    {CircleSegment(r, c) : r \in Radii \cup {MalformedRadius, NoRadius},
                           c \in {CentreToken, MalformedToken, NoToken}}

ArcBoundaries ==
    {<<a>> : a \in ArcSegments}
    \cup {<<LineSegment(<<t>>), a>> : t \in AxisTokens, a \in ArcSegments}
    \cup {<<c, a>> : c \in CircleSegments, a \in ValidArcs}
    \cup {<<LineSegment(<<t>>), a, b>> : t \in AxisTokens, a \in ValidArcs, b \in ValidArcs}

ArcConfigs == [validateGeometries : {TRUE}, fixGeometries : {FALSE},
               geometryDetail : {50, 100}, strictSchemaValidation : {FALSE}]

ArcInit ==
    /\ config \in ArcConfigs
    /\ ident = "null"
    /\ seqno = "null"
    /\ boundaryCoordinates = << >>
    /\ boundary = << >>
    /\ resolved = 0
    /\ geometry = NoGeometry
    /\ fixInput = NoGeometry
    /\ coordinates = << >>
    /\ stages = << >>
    /\ features = << >>
    /\ error = NoError
    /\ pc = "idle"
    /\ definitions = 0
    /\ calls = << >>
    /\ members = << >>
    /\ geojson = NoGeojson
    /\ tasks = << >>

BeginArcGeometry == BeginWith(ArcBoundaries)

\* An error of the converter names airspace and sequence number; one thrown
\* by turf is passed on as it is.
ErrorOf(kind) == IF kind = "TurfError" THEN PlainError(kind) ELSE TaggedError(kind, "none")

\* As ResolveArc, the arc's coordinates put before those accumulated.
ResolveArcPrepending ==
    /\ pc = "resolve"
    /\ resolved < Len(boundary)
    /\ boundary[resolved + 1].type = "arc"
    /\ LET r == createCoordinatesFromArc(boundary[resolved + 1].arc, boundaryCoordinates,
                                         config.geometryDetail)
       IN  IF r.ok
           THEN /\ boundaryCoordinates' = r.val \o boundaryCoordinates
                /\ resolved' = resolved + 1
                /\ UNCHANGED <<error, pc>>
           ELSE /\ Fail(ErrorOf(r.val))
                /\ UNCHANGED <<boundaryCoordinates, resolved>>
    /\ UNCHANGED <<tasks, members, geojson, definitions, calls, config, ident, seqno, boundary, geometry, fixInput, coordinates, stages,
                   features>>

\* createPolygonGeometry, case 'arc'.
ResolveArc ==
    /\ pc = "resolve"
    /\ resolved < Len(boundary)
    /\ boundary[resolved + 1].type = "arc"
    /\ LET r == createCoordinatesFromArc(boundary[resolved + 1].arc, boundaryCoordinates,
                                         config.geometryDetail)
       IN  IF r.ok
           THEN /\ boundaryCoordinates' = boundaryCoordinates \o r.val
                /\ resolved' = resolved + 1
                /\ UNCHANGED <<error, pc>>
           ELSE /\ Fail(ErrorOf(r.val))
                /\ UNCHANGED <<boundaryCoordinates, resolved>>
    /\ UNCHANGED <<tasks, members, geojson, definitions, calls, config, ident, seqno, boundary, geometry, fixInput, coordinates, stages,
                   features>>

\* createPolygonGeometry, case 'circle'.
ResolveCircle ==
    /\ pc = "resolve"
    /\ resolved < Len(boundary)
    /\ boundary[resolved + 1].type = "circle"
    /\ LET r == createCoordinatesFromCircle(boundary[resolved + 1].circle,
                                            config.geometryDetail)
       IN  IF r.ok
           THEN /\ boundaryCoordinates' = boundaryCoordinates \o r.val
                /\ resolved' = resolved + 1
                /\ UNCHANGED <<error, pc>>
           ELSE /\ Fail(ErrorOf(r.val))
                /\ UNCHANGED <<boundaryCoordinates, resolved>>
    /\ UNCHANGED <<tasks, members, geojson, definitions, calls, config, ident, seqno, boundary, geometry, fixInput, coordinates, stages,
                   features>>

ArcNext ==
    \/ BeginArcGeometry
    \/ ResolveLine
    \/ ResolveArc
    \/ ResolveCircle

ArcSpec == ArcInit /\ [][ArcNext]_vars

----------------------------------------------------------------------------
(* The Coordinate Decoder on tokens at and beyond the limits of the ranges *)

\* Degrees, minutes and seconds written in the digits of one half of a token.
DmsFields(degrees) ==
    [deg : degrees, min : {0, 59, 60}, sec : {0, 59, 60}]

DecodeTokens ==
    {[given |-> TRUE, wellFormed |-> w, sep |-> sp,
      lat |-> [deg |-> la.deg, min |-> la.min, sec |-> la.sec, dir |-> ns],
      lon |-> [deg |-> lo.deg, min |-> lo.min, sec |-> lo.sec, dir |-> ew]] :
        w \in BOOLEAN, sp \in {" ", "  ", "\t"},
        la \in DmsFields({0, 90, 91}), ns \in {"N", "S"},
        lo \in DmsFields({0, 180, 181}), ew \in {"E", "W"}}

DecodeBoundaries == {<<LineSegment(<<t>>)>> : t \in DecodeTokens}

BeginDecode == BeginWith(DecodeBoundaries)

DecodeNext ==
    \/ BeginDecode
    \/ ResolveLine

DecodeSpec == Init /\ [][DecodeNext]_vars

----------------------------------------------------------------------------
(* AixmConverter over the converter of AIXM airspace members *)

ALLOWED_TYPES ==
    {"NAS", "FIR", "FIR_P", "UIR", "UIR_P", "CTA", "CTA_P", "OCA_P", "OCA", "UTA", "UTA_P",
     "TMA", "TMA_P", "CTR", "CTR_P", "OTA", "SECTOR", "SECTOR_C", "TSA", "CBA", "RCA", "RAS",
     "AWY", "MTR", "P", "R", "D", "ADIZ", "NO_FIR", "PART", "CLASS", "POLITICAL", "D_OTHER",
     "TRA", "A", "W", "PROTECT", "AMA", "ASR", "ADV", "UADV", "ATZ", "ATZ_P", "HTZ", "NAS_P",
     "OTHER"}

ALLOWED_LOCALTYPES == {}

ALLOWED_CLASSES == {"A", "B", "C", "D", "E", "F", "G", "NO"}

\* mapClassAndType: the switch over the type.
mappedTypeOf(type) ==
    CASE type \in {"FIR_P", "UIR_P", "CTA_P", "OCA_P", "UTA_P", "TMA_P", "CTR_P", "ATZ_P"}
            -> SubSeq(type, 1, Len(type) - 2)
      [] type = "SECTOR_C" -> "SECTOR"
      [] type = "P" -> "PROBHIBITED"
      [] type = "R" -> "RESTRICTED"
      [] type = "D" -> "DANGER"
      [] type = "A" -> "ALERT"
      [] type = "W" -> "WARNING"
      [] type = "PROTECT" -> "PROTECTED"
      [] type = "ADV" -> "ADVISORY"
      [] type = "NAS_P" -> "OTHER"
      [] OTHER -> type

\* mapClassAndType: the switch over the class.
mappedClassOf(airspaceClass) == IF airspaceClass = "NO" THEN "UNCLASSIFIED" ELSE airspaceClass

\* mapClassAndType: "null" stands for null or undefined.  The last switch has
\* the case 'RMZ' only and throws by default.
mapClassAndType(type, localType, airspaceClass) ==
    CASE type \notin ALLOWED_TYPES -> Throw("TypeNotAllowed")
      [] localType # "null" /\ localType \notin ALLOWED_LOCALTYPES -> Throw("LocalTypeNotAllowed")
      [] airspaceClass # "null" /\ airspaceClass \notin ALLOWED_CLASSES -> Throw("ClassNotAllowed")
      [] airspaceClass \notin ALLOWED_CLASSES -> Throw("NoClassMapping")
      [] localType # "RMZ" -> Throw("NoLocalTypeMapping")
      [] OTHER -> Ok([type |-> mappedTypeOf(type), localType |-> "RMZ",
                      class |-> mappedClassOf(airspaceClass)])

\* An airspace member: type, localType and class are the texts of the
\* elements ("null" when the element is missing), patch the kind of surface.
Members ==
    [type : {"CTR", "D", "XX"}, localType : {"null", "RMZ"}, class : {"null", "D", "X"},
     patch : {"PolygonPatch", "Rectangle"}]

Documents == UNION {[1 .. n -> Members] : n \in 0 .. MaxMembers}

\* createAirspaceFeature reads the element aixm:classification itself, not
\* its _text: an object whenever the element is there.
icaoClassOf(member) == IF member.class = "null" THEN "null" ELSE "[object Object]"

\* createAirspaceFeature for a member whose limits and lifetime are well
\* formed.  The feature returned is an object, which convert spreads into
\* push(): a TypeError, an object not being iterable.
createAirspaceFeature(member) ==
    LET classTypeMeta == mapClassAndType(member.type, member.localType, icaoClassOf(member))
    IN  IF ~ classTypeMeta.ok THEN classTypeMeta
        ELSE IF member.patch # "PolygonPatch" THEN Throw("UnsupportedGeometry")
        ELSE Throw("TypeError")

DocConfigs == [validateGeometries : {TRUE}, fixGeometries : BOOLEAN,
               geometryDetail : {100}, strictSchemaValidation : BOOLEAN]

DocInit ==
    /\ config \in DocConfigs
    /\ ident = "null"
    /\ seqno = "null"
    /\ boundaryCoordinates = << >>
    /\ boundary = << >>
    /\ resolved = 0
    /\ geometry = NoGeometry
    /\ fixInput = NoGeometry
    /\ coordinates = << >>
    /\ stages = << >>
    /\ features = << >>
    /\ error = NoError
    /\ pc = "idle"
    /\ definitions = 0
    /\ calls = << >>
    /\ members = << >>
    /\ geojson = NoGeojson
    /\ tasks = << >>

\* AixmConverter.convertFromFile and convertFromBuffer down to the loop of
\* AirspaceConverter.convert over message:hasMember.  xml2js in compact mode
\* gives an array only for two members or more: one member is an object and
\* none is undefined, and the loop throws a TypeError on either.
ConvertFromFile ==
    /\ pc = "idle"
    /\ \E d \in Documents : members' = d
    /\ geojson' = NoGeojson
    /\ ident' = "null"
    /\ IF Len(members') < 2
       THEN Fail(PlainError("TypeError"))
       ELSE pc' = "members" /\ UNCHANGED error
    /\ UNCHANGED <<config, seqno, boundaryCoordinates, boundary, resolved, geometry, fixInput,
                   coordinates, stages, features, definitions, calls, tasks>>

\* One round of the loop of convert: createAirspaceFeature and push; after
\* the last member the feature collection is validated and stored.
CreateAirspaceFeature ==
    /\ pc = "members"
    /\ Len(features) < Len(members)
    /\ ident' = AirspaceName
    /\ LET r == createAirspaceFeature(members[Len(features) + 1])
       IN  IF r.ok
           THEN /\ features' = Append(features, r.val)
                /\ IF Len(features') = Len(members)
                   THEN geojson' = [features |-> features', given |-> TRUE, valid |-> TRUE]
                        /\ pc' = "converted"
                   ELSE UNCHANGED <<geojson, pc>>
                /\ UNCHANGED error
           ELSE /\ error' = [kind |-> r.val, ident |-> AirspaceName, seqno |-> "null",
                             selfIntersect |-> "none"]
                /\ pc' = "failed"
                /\ UNCHANGED <<features, geojson>>
    /\ UNCHANGED <<config, seqno, boundaryCoordinates, boundary, resolved, geometry, fixInput,
                   coordinates, stages, definitions, calls, members, tasks>>

\* AixmConverter.toGeojsonFile, after convertFromFile has returned or thrown.
ToGeojsonFile ==
    /\ pc \in {"converted", "failed"}
    /\ IF geojson.given
       THEN pc' = "written" /\ UNCHANGED error
       ELSE pc' = "notWritten" /\ error' = PlainError("NoGeojson")
    /\ UNCHANGED <<config, ident, seqno, boundaryCoordinates, boundary, resolved, geometry,
                   fixInput, coordinates, stages, features, definitions, calls, members,
                   geojson, tasks>>

DocNext ==
    \/ ConvertFromFile
    \/ CreateAirspaceFeature
    \/ ToGeojsonFile

DocSpec == DocInit /\ [][DocNext]_vars

----------------------------------------------------------------------------
(* AixmConverter: sequential calls of convertFromBuffer and convertFromFile,
   each over a new AirspaceConverter, and the schema validation that ends
   convert *)

ApiConfigs == [validateGeometries : BOOLEAN, fixGeometries : BOOLEAN,
               geometryDetail : {100}, strictSchemaValidation : BOOLEAN]

\* The config parameter 'type' of convertFromBuffer and convertFromFile.
ContentTypes == {"airspace", "airport", ""}

ApiInit ==
    /\ config \in ApiConfigs
    /\ ident = "null"
    /\ seqno = "null"
    /\ boundaryCoordinates = << >>
    /\ boundary = << >>
    /\ resolved = 0
    /\ geometry = NoGeometry
    /\ fixInput = NoGeometry
    /\ coordinates = << >>
    /\ stages = << >>
    /\ features = << >>
    /\ error = NoError
    /\ pc = "ready"
    /\ definitions = 0
    /\ calls = << >>
    /\ members = << >>
    /\ geojson = NoGeojson
    /\ tasks = << >>

\* As getConverter, with a converter for every type.
getConverterOfAny(type) == Ok("AirspaceConverter")

\* getConverter
getConverter(type) == IF type = "airspace" THEN Ok("AirspaceConverter") ELSE Throw("UnknownType")

\* As convertFromBuffer, this.reset() left out.
convertFromBufferKeeping(type, earlier) ==
    IF type = "" THEN [geojson |-> earlier, converter |-> Throw("MissingType")]
    ELSE [geojson |-> earlier, converter |-> getConverter(type)]

\* convertFromBuffer down to getConverter: this.geojson after the reset, and
\* the converter or the error thrown.
convertFromBuffer(type, earlier) ==
    IF type = "" THEN [geojson |-> NoGeojson, converter |-> Throw("MissingType")]
    ELSE [geojson |-> NoGeojson, converter |-> getConverter(type)]

\* A call of convertFromBuffer, or of convertFromFile (viaFile), after the
\* call before has ended.  convertFromFile resets, checks the type and that
\* the file exists, and hands the buffer read to convertFromBuffer.  The
\* AirspaceConverter is a new one.
BeginCall(viaFile) ==
    /\ pc \in {"ready", "converted", "failed", "written", "notWritten"}
    /\ Len(calls) < MaxCalls
    /\ \E type \in ContentTypes, exists \in (IF viaFile THEN BOOLEAN ELSE {TRUE}) :
          LET began == convertFromBuffer(type, geojson)
          IN  /\ calls' = Append(calls, [ended |-> pc,
                                         accumulated |-> Len(boundaryCoordinates),
                                         type |-> type, given |-> exists])
              /\ IF type # "" /\ ~ exists
                 THEN geojson' = NoGeojson /\ Fail(PlainError("FileMissing"))
                 ELSE /\ geojson' = began.geojson
                      /\ IF began.converter.ok
                         THEN pc' = "idle" /\ error' = NoError
                         ELSE Fail(PlainError(began.converter.val))
    /\ ident' = "null"
    /\ seqno' = "null"
    /\ boundaryCoordinates' = << >>
    /\ boundary' = << >>
    /\ resolved' = 0
    /\ geometry' = NoGeometry
    /\ fixInput' = NoGeometry
    /\ coordinates' = << >>
    /\ stages' = << >>
    /\ features' = << >>
    /\ definitions' = 0
    /\ UNCHANGED <<tasks, members, config>>

ConvertFromBuffer == BeginCall(FALSE)

ConvertFromPath == BeginCall(TRUE)

\* As returnCollection, strictSchemaValidation not looked at.
returnCollectionLenient(strict, valid) == Ok(valid)

\* The end of convert: the collection is returned unless it does not match
\* the schema and strictSchemaValidation is set.
returnCollection(strict, valid) ==
    IF ~ valid /\ strict THEN Throw("SchemaMismatch") ELSE Ok(valid)

\* convert after its loop: createFeatureCollection, this.schemaValidator and
\* the return, and convertFromBuffer's assignment of what convert returned.
\* The schema is read from schemas/geojson-schema.json: whether the
\* collection matches it is an input here.
ReturnCollection ==
    /\ pc = "done"
    /\ calls # << >>
    /\ \E valid \in BOOLEAN :
          LET returned == returnCollection(config.strictSchemaValidation, valid)
          IN  IF returned.ok
              THEN /\ geojson' = [features |-> features, given |-> TRUE, valid |-> returned.val]
                   /\ pc' = "converted"
                   /\ UNCHANGED error
              ELSE /\ Fail(PlainError(returned.val))
                   /\ UNCHANGED geojson
    /\ UNCHANGED <<tasks, members, definitions, calls, config, ident, seqno,
                   boundaryCoordinates, boundary, resolved, geometry, fixInput, coordinates,
                   stages, features>>

ApiNext ==
    \/ ConvertFromBuffer
    \/ ConvertFromPath
    \/ BeginLifeGeometry
    \/ NextGeometry
    \/ ResolveLine
    \/ ResolveUnsupported
    \/ AssemblePolygon
    \/ SkipFix
    \/ FixGeometryUnchanged
    \/ FixGeometryStart
    \/ StageDedup
    \/ StageOverlap
    \/ StageSplit
    \/ StageEnvelope
    \/ SkipValidate
    \/ ValidateOk
    \/ ValidateFail
    \/ EmitFeature
    \/ ReturnCollection
    \/ ToGeojsonFile

ApiSpec == ApiInit /\ [][ApiNext]_vars

----------------------------------------------------------------------------
(* Two calls of convert in flight on one AirspaceConverter.  A call runs
   until it awaits: createAirspaceFeatures in convert's loop, and
   createGroundServiceProperty in the loop over the geometry definitions.
   The calls that wait are resumed in the order in which they began to wait. *)

CallIds == {1, 2}

\* What createPolygonGeometry leaves: the geometry returned or the error
\* thrown, and this.boundaryCoordinates.
Resolution(ok, kind, geom, accumulated) ==
    [ok |-> ok, kind |-> kind, geometry |-> geom, accumulated |-> accumulated]

\* The tail of createPolygonGeometry on the coordinates accumulated.
polygonOf(accumulated, assembled) ==
    IF assembled.ok
    THEN Resolution(TRUE, "none", assembled.val, assembled.val.coords)
    ELSE Resolution(FALSE, assembled.val, NoGeometry, closedInPlace(accumulated))

RECURSIVE resolveSegments(_, _, _, _)
RECURSIVE resolveSegmentsOn(_, _, _, _, _)

\* createPolygonGeometry's loop after segment i has resolved to r.
resolveSegmentsOn(bdry, i, accumulated, steps, r) ==
    IF r.ok THEN resolveSegments(bdry, i + 1, accumulated \o r.val, steps)
    ELSE Resolution(FALSE, r.val, NoGeometry, accumulated)

\* createPolygonGeometry from segment i on, this.boundaryCoordinates being
\* accumulated.
resolveSegments(bdry, i, accumulated, steps) ==
    IF i > Len(bdry) THEN polygonOf(accumulated, assemblePolygon(accumulated))
    ELSE resolveSegmentsOn(bdry, i, accumulated, steps,
                           segmentCoordinates(bdry[i], accumulated, steps))

\* As createPolygonGeometry, on an accumulator emptied first.
createPolygonGeometryOwn(bdry, accumulated, steps) == resolveSegments(bdry, 1, << >>, steps)

\* createPolygonGeometry: it starts on this.boundaryCoordinates as it is.
createPolygonGeometry(bdry, accumulated, steps) == resolveSegments(bdry, 1, accumulated, steps)

\* createAirspaceFeatures, one round of its loop down to the feature:
\* createPolygonGeometry and validateGeometry.
validatedGeometry(cfg, resolution) ==
    IF resolution.ok /\ cfg.validateGeometries /\ ~ validateGeometry(resolution.geometry).isValid
    THEN [resolution EXCEPT !.ok = FALSE, !.kind = "InvalidGeometry"]
    ELSE resolution

\* A call of convert: where it stands, the geometry definitions of the
\* member in hand, the definition in turn, the members still to come, the
\* features pushed, and the feature that waits for its ground service.
NewCall ==
    [state |-> "new", member |-> << >>, definition |-> 0, remaining |-> 0,
     features |-> << >>, pending |-> << >>, error |-> "none"]

\* The instance's fields and the call, after a run of the call.
Ran(call, accumulated, name, number) ==
    [call |-> call, accumulated |-> accumulated, ident |-> name, seqno |-> number]

FeatureOf(definition, resolution) ==
    [boundary |-> definition.boundary, ring |-> resolution.geometry.coords]

RECURSIVE runMember(_, _, _, _)
RECURSIVE afterGeometry(_, _, _, _, _)

\* createAirspaceFeatures' loop after the geometry of the definition in turn:
\* the error thrown, the await of the ground service, or the feature pushed,
\* reset() and the next round.
afterGeometry(call, cfg, name, definition, resolution) ==
    IF ~ resolution.ok
    THEN Ran([call EXCEPT !.state = "failed", !.error = resolution.kind],
             resolution.accumulated, name, call.definition)
    ELSE IF definition.service
    THEN Ran([call EXCEPT !.state = "awaitService",
                          !.pending = <<FeatureOf(definition, resolution)>>],
             resolution.accumulated, name, call.definition)
    ELSE runMember([call EXCEPT !.features = Append(@, FeatureOf(definition, resolution)),
                                !.definition = @ + 1],
                   cfg, << >>, "null")

\* createAirspaceFeatures from the definition in turn on, down to the next
\* await: this.ident is name and this.boundaryCoordinates is accumulated.
runMember(call, cfg, accumulated, name) ==
    IF call.definition > Len(call.member)
    THEN Ran([call EXCEPT !.state = "awaitFeatures"], accumulated, name, "null")
    ELSE afterGeometry(call, cfg, name, call.member[call.definition],
                       validatedGeometry(cfg,
                           createPolygonGeometry(call.member[call.definition].boundary,
                                                 accumulated, cfg.geometryDetail)))

\* The boundaries of the two calls: a triangle and a quadrilateral that
\* crosses itself, on points that no boundary of the other call has.
CallBoundaries(id) ==
    IF id = 1
    THEN {<<LineSegment(<<Token(0, 0), Token(0, 1), Token(1, 0)>>)>>,
          <<LineSegment(<<Token(0, 0), Token(1, 1), Token(0, 1), Token(1, 0)>>)>>}
    ELSE {<<LineSegment(<<Token(2, 2), Token(2, 3), Token(3, 2)>>)>>,
          <<LineSegment(<<Token(2, 2), Token(3, 3), Token(2, 3), Token(3, 2)>>)>>}

\* A geometry definition: its boundary, and whether a ground service is
\* looked up for it.
CallDefinitions(id) == [boundary : CallBoundaries(id), service : BOOLEAN]

\* The geometry definitions of an airspace member.
CallMembers(id) == UNION {[1 .. n -> CallDefinitions(id)] : n \in 1 .. MaxDefinitions}

InterleaveConfigs == [validateGeometries : BOOLEAN, fixGeometries : {FALSE},
                      geometryDetail : {100}, strictSchemaValidation : {FALSE}]

InterleaveInit ==
    /\ config \in InterleaveConfigs
    /\ ident = "null"
    /\ seqno = "null"
    /\ boundaryCoordinates = << >>
    /\ boundary = << >>
    /\ resolved = 0
    /\ geometry = NoGeometry
    /\ fixInput = NoGeometry
    /\ coordinates = << >>
    /\ stages = << >>
    /\ features = << >>
    /\ error = NoError
    /\ pc = "idle"
    /\ definitions = 0
    /\ calls = << >>
    /\ members = << >>
    /\ geojson = NoGeojson
    /\ tasks = [call |-> [id \in CallIds |-> NewCall], queue |-> << >>]

\* The call has run to an await, to its return or to a throw: the instance's
\* fields are as the run left them, and a call that awaits queues up.
Settle(id, ran) ==
    /\ tasks' = [call |-> [tasks.call EXCEPT ![id] = ran.call],
                 queue |-> (IF tasks.queue # << >> /\ Head(tasks.queue) = id
                            THEN Tail(tasks.queue) ELSE tasks.queue)
                           \o (IF ran.call.state \in {"awaitFeatures", "awaitService"}
                               THEN <<id>> ELSE << >>)]
    /\ boundaryCoordinates' = ran.accumulated
    /\ ident' = ran.ident
    /\ seqno' = ran.seqno
    /\ UNCHANGED <<members, geojson, definitions, calls, config, boundary, resolved, geometry,
                   fixInput, coordinates, stages, features, error, pc>>

\* convert is called: this.reset(), and createAirspaceFeatures on the first
\* member down to the first await.
StartConvert(id) ==
    /\ tasks.call[id].state = "new"
    /\ \E member \in CallMembers(id), remaining \in 0 .. MaxMembers - 1 :
          Settle(id, runMember([tasks.call[id] EXCEPT !.member = member, !.definition = 1,
                                                      !.remaining = remaining],
                               config, << >>, AirspaceName))

\* convert resumes with the features of a member: they are pushed, and
\* createAirspaceFeatures is called on the next member, without a reset; or
\* the collection is returned.
ResumeConvert(id) ==
    /\ tasks.queue # << >> /\ Head(tasks.queue) = id
    /\ tasks.call[id].state = "awaitFeatures"
    /\ IF tasks.call[id].remaining = 0
       THEN Settle(id, Ran([tasks.call[id] EXCEPT !.state = "returned"],
                           boundaryCoordinates, ident, seqno))
       ELSE \E member \in CallMembers(id) :
               Settle(id, runMember([tasks.call[id] EXCEPT !.member = member, !.definition = 1,
                                                           !.remaining = @ - 1],
                                    config, boundaryCoordinates, AirspaceName))

\* createAirspaceFeatures resumes with the ground service: the feature is
\* pushed, reset() called, and the loop goes on.
ResumeCreateAirspaceFeatures(id) ==
    /\ tasks.queue # << >> /\ Head(tasks.queue) = id
    /\ tasks.call[id].state = "awaitService"
    /\ Settle(id, runMember([tasks.call[id] EXCEPT !.features = @ \o tasks.call[id].pending,
                                                   !.pending = << >>,
                                                   !.definition = @ + 1],
                            config, << >>, "null"))

InterleaveNext ==
    \/ \E id \in CallIds : StartConvert(id)
    \/ \E id \in CallIds : ResumeConvert(id)
    \/ \E id \in CallIds : ResumeCreateAirspaceFeatures(id)

InterleaveSpec == InterleaveInit /\ [][InterleaveNext]_vars

----------------------------------------------------------------------------
(* Calls of convertFromBuffer that overlap on one AixmConverter.  Each call
   has an AirspaceConverter of its own; this.geojson is the instance's.  A
   call runs until it awaits, and what waits resumes in the order in which it
   began to wait: convert at each member, convertFromBuffer for what convert
   returns, and the caller for convertFromBuffer. *)

\* The collection convert returns to the call.
CollectionOf(id) == [features |-> <<id>>, given |-> TRUE, valid |-> TRUE]

NewBufferCall == [state |-> "new", rounds |-> 0, read |-> NoGeojson]

OverlapInit ==
    /\ config \in InterleaveConfigs
    /\ ident = "null"
    /\ seqno = "null"
    /\ boundaryCoordinates = << >>
    /\ boundary = << >>
    /\ resolved = 0
    /\ geometry = NoGeometry
    /\ fixInput = NoGeometry
    /\ coordinates = << >>
    /\ stages = << >>
    /\ features = << >>
    /\ error = NoError
    /\ pc = "idle"
    /\ definitions = 0
    /\ calls = << >>
    /\ members = << >>
    /\ geojson = NoGeojson
    /\ tasks = [call |-> [id \in CallIds |-> NewBufferCall], queue |-> << >>]

\* The call goes on to wait as call says, or has ended.
Requeue(id, call) ==
    tasks' = [call |-> [tasks.call EXCEPT ![id] = call],
              queue |-> (IF tasks.queue # << >> /\ Head(tasks.queue) = id
                         THEN Tail(tasks.queue) ELSE tasks.queue)
                        \o (IF call.state \in {"inConvert", "assigning", "resolved"}
                            THEN <<id>> ELSE << >>)]

\* convertFromBuffer is called: this.reset(), getConverter, and convert down
\* to its first await, unless one of them throws.
BeginConvertFromBuffer(id) ==
    /\ tasks.call[id].state = "new"
    /\ \E type \in ContentTypes, rounds \in 1 .. MaxMembers, thrown \in BOOLEAN :
          LET began == convertFromBuffer(type, geojson)
          IN  /\ geojson' = began.geojson
              /\ IF ~ began.converter.ok \/ thrown
                 THEN Requeue(id, [tasks.call[id] EXCEPT !.state = "rejected"])
                 ELSE Requeue(id, [tasks.call[id] EXCEPT !.state = "inConvert",
                                                         !.rounds = rounds])
    /\ UNCHANGED <<members, definitions, calls, config, ident, seqno, boundaryCoordinates,
                   boundary, resolved, geometry, fixInput, coordinates, stages, features,
                   error, pc>>

\* convert resumes with the features of a member: it throws, goes on to the
\* next member, or returns the collection to convertFromBuffer.
ResumeInConvert(id) ==
    /\ tasks.queue # << >> /\ Head(tasks.queue) = id
    /\ tasks.call[id].state = "inConvert"
    /\ \E thrown \in BOOLEAN :
          IF thrown
          THEN Requeue(id, [tasks.call[id] EXCEPT !.state = "rejected"])
          ELSE IF tasks.call[id].rounds > 1
          THEN Requeue(id, [tasks.call[id] EXCEPT !.rounds = @ - 1])
          ELSE Requeue(id, [tasks.call[id] EXCEPT !.state = "assigning", !.rounds = 0])
    /\ UNCHANGED <<members, geojson, definitions, calls, config, ident, seqno,
                   boundaryCoordinates, boundary, resolved, geometry, fixInput, coordinates,
                   stages, features, error, pc>>

\* convertFromBuffer resumes with what convert returned: this.geojson is
\* assigned and the call's promise resolved.
AssignGeojson(id) ==
    /\ tasks.queue # << >> /\ Head(tasks.queue) = id
    /\ tasks.call[id].state = "assigning"
    /\ geojson' = CollectionOf(id)
    /\ Requeue(id, [tasks.call[id] EXCEPT !.state = "resolved"])
    /\ UNCHANGED <<members, definitions, calls, config, ident, seqno, boundaryCoordinates,
                   boundary, resolved, geometry, fixInput, coordinates, stages, features,
                   error, pc>>

\* The caller that awaited the call resumes and reads toGeojson().
ReadToGeojson(id) ==
    /\ tasks.queue # << >> /\ Head(tasks.queue) = id
    /\ tasks.call[id].state = "resolved"
    /\ Requeue(id, [tasks.call[id] EXCEPT !.state = "read", !.read = geojson])
    /\ UNCHANGED <<members, geojson, definitions, calls, config, ident, seqno,
                   boundaryCoordinates, boundary, resolved, geometry, fixInput, coordinates,
                   stages, features, error, pc>>

OverlapNext ==
    \/ \E id \in CallIds : BeginConvertFromBuffer(id)
    \/ \E id \in CallIds : ResumeInConvert(id)
    \/ \E id \in CallIds : AssignGeojson(id)
    \/ \E id \in CallIds : ReadToGeojson(id)

OverlapSpec == OverlapInit /\ [][OverlapNext]_vars

----------------------------------------------------------------------------
(* removeDuplicates applied to point sequences 1/FineScale of a second apart *)

PointSeqs == UNION {[1 .. n -> Points] : n \in 0 .. MaxPts}

DedupInit ==
    /\ config \in {c \in Configs : c.fixGeometries}
    /\ ident = "null"
    /\ seqno = "null"
    /\ boundaryCoordinates = << >>
    /\ boundary = << >>
    /\ resolved = 0
    /\ geometry = NoGeometry
    /\ fixInput \in {Geometry(s, FineScale) : s \in PointSeqs}
    /\ coordinates = fixInput.coords
    /\ stages = << >>
    /\ features = << >>
    /\ error = NoError
    /\ pc = "dedup"
    /\ definitions = 0
    /\ calls = << >>
    /\ members = << >>
    /\ geojson = NoGeojson
    /\ tasks = << >>

\* coordinates = this.removeDuplicates(coordinates)
ApplyRemoveDuplicates ==
    /\ pc = "dedup"
    /\ Len(stages) < MaxPasses
    /\ coordinates' = removeDuplicatesAt(coordinates, fixInput.scale)
    /\ stages' = Append(stages, "dedup")
    /\ UNCHANGED <<tasks, members, geojson, definitions, calls, config, ident, seqno, boundaryCoordinates, boundary, resolved,
                   geometry, fixInput, features, error, pc>>

DedupNext == ApplyRemoveDuplicates

DedupSpec == DedupInit /\ [][DedupNext]_vars

----------------------------------------------------------------------------
(* removeDuplicates and removeOverlapPoints applied, in any order, to point
   sequences 1/FineScale of a second apart *)

\* coordinates = this.removeOverlapPoints(coordinates)
ApplyRemoveOverlapPoints ==
    /\ pc = "dedup"
    /\ Len(stages) < MaxPasses
    /\ coordinates' = removeOverlapPoints(coordinates)
    /\ stages' = Append(stages, "overlap")
    /\ UNCHANGED <<tasks, members, geojson, definitions, calls, config, ident, seqno,
                   boundaryCoordinates, boundary, resolved, geometry, fixInput, features,
                   error, pc>>

CleanNext ==
    \/ ApplyRemoveDuplicates
    \/ ApplyRemoveOverlapPoints

CleanSpec == DedupInit /\ [][CleanNext]_vars

----------------------------------------------------------------------------
(* Properties *)

\* createFixedPolygon has returned: the repair ran and its result is in geometry.
RepairReturned == stages # << >> /\ pc \in {"validate", "emit", "done", "failed"}

RingClosed(ring) == Len(ring) > 0 /\ ring[1] = Last(ring)

\* The coordinates of the boundary's line segments, in order: what
\* createPolygonGeometry has accumulated once every segment is resolved.
RECURSIVE CoordsOfSegments(_, _)
CoordsOfSegments(segments, i) ==
    IF i > Len(segments) THEN << >>
    ELSE createCoordinatesFromLine(segments[i]).val \o CoordsOfSegments(segments, i + 1)

AccumulatedCoords == CoordsOfSegments(boundary, 1)

\* The number of points of the accumulated sequence once it is closed.
ClosedLen(coords) == Len(coords) + (IF coords[1] # Last(coords) THEN 1 ELSE 0)

\* C1: every geometry the repair returns (from split-and-select or from the
\* envelope) is reported valid and simple by validateGeometry; the repair
\* never returns an invalid ring.
C1_RepairResultValid ==
    RepairReturned =>
        validateGeometry(geometry).isValid /\ validateGeometry(geometry).isSimple

C3_AssembledRingClosed ==
    /\ pc = "assembled" =>
          /\ RingClosed(geometry.coords)
          /\ Len(geometry.coords) >= 4
          /\ Len(geometry.coords) = ClosedLen(AccumulatedCoords)
          /\ \A i \in 1 .. Len(AccumulatedCoords) :
                \E j \in 1 .. Len(geometry.coords) :
                    geometry.coords[j] = AccumulatedCoords[i]
    /\ (pc = "failed" /\ error.kind = "TurfError") =>
          ClosedLen(AccumulatedCoords) < 4 /\ geometry = NoGeometry
    /\ (pc = "resolve" /\ resolved = Len(boundary) /\ ClosedLen(boundaryCoordinates) < 4) =>
          ~ assemblePolygon(boundaryCoordinates).ok

\* An open sequence of 3 points was closed and returned.
C3_Witness ==
    /\ pc = "assembled"
    /\ Len(AccumulatedCoords) = 3
    /\ AccumulatedCoords[1] # Last(AccumulatedCoords)
    /\ Len(geometry.coords) = 4

\* C4: every ring handed back on success is wound counter-clockwise
\* (non-negative signed area), from the assembler or from a repair stage.
C4_EmittedCounterClockwise ==
    \A i \in 1 .. Len(features) : SignedArea2(features[i].geometry.coords) >= 0

RepairStages == <<"dedup", "overlap", "split", "envelope">>

\* createFixedPolygon is running or has run.
RepairEntered == stages # << >> \/ pc \in {"dedup", "overlap", "split", "envelope"}

AcceptedNoWitness(g) ==
    /\ validateGeometry(g).isValid
    /\ validateGeometry(g).isSimple
    /\ validateGeometry(g).selfIntersect = "none"

\* C6: createFixedPolygon is called only with repair enabled and for a ring
\* that fails validation; a ring reported valid and simple with no witness is
\* returned by fixGeometry as it is, coordinates and order unchanged.
C6_ValidRingUnchanged ==
    /\ RepairEntered => config.fixGeometries /\ ~ AcceptedNoWitness(fixInput)
    /\ (fixInput # NoGeometry /\ AcceptedNoWitness(fixInput)) =>
          /\ ~ RepairEntered
          /\ coordinates = << >>
          /\ geometry = fixInput
          /\ pc \in {"validate", "emit"} => geometry = assemblePolygon(AccumulatedCoords).val

\* fixGeometry was called with a valid ring and returned it.
C6_Witness ==
    /\ config.fixGeometries
    /\ pc = "validate"
    /\ fixInput # NoGeometry
    /\ AcceptedNoWitness(fixInput)
    /\ geometry = fixInput

\* C7: the stages run in the order deduplication, overlap removal,
\* split-and-select, envelope; the envelope runs exactly when split-and-select
\* raised, over the points left by deduplication and overlap removal, and not
\* once split-and-select has returned a polygon.
C7_StageOrder ==
    /\ Len(stages) <= 4
    /\ \A i \in 1 .. Len(stages) : stages[i] = RepairStages[i]
    /\ Len(stages) >= 2 =>
          coordinates = removeOverlapPoints(removeDuplicates(fixInput.coords))
    /\ (Len(stages) = 3 /\ pc = "envelope") => ~ splitAndSelect(coordinates).ok
    /\ (Len(stages) = 3 /\ pc # "envelope") =>
          /\ splitAndSelect(coordinates).ok
          /\ geometry = splitAndSelect(coordinates).val
    /\ Len(stages) = 4 =>
          /\ ~ splitAndSelect(coordinates).ok
          /\ geometry = Geometry(envelope(coordinates), 1)

\* The envelope ran after overlap removal had dropped a point.
C7_Witness ==
    /\ stages = RepairStages
    /\ Len(coordinates) < Len(removeDuplicates(fixInput.coords))

\* The features unkinkPolygon cut the cleaned ring into.
UnkinkedFeatures == unkinkPolygon(lineToPolygon(coordinates).val).features

\* C8: split-and-select returns one of the sub-polygons unkinking produced,
\* and none of them has a strictly larger area than the one returned.
C8_LargestSubPolygon ==
    (Len(stages) = 3 /\ pc # "envelope") =>
        /\ \E i \in 1 .. Len(UnkinkedFeatures) : geometry.coords = UnkinkedFeatures[i]
        /\ \A i \in 1 .. Len(UnkinkedFeatures) :
              getArea(UnkinkedFeatures[i]) <= getArea(geometry.coords)

\* A bowtie of two unequal lobes was split and the larger returned.
C8_Witness ==
    /\ Len(stages) = 3 /\ pc # "envelope"
    /\ Len(UnkinkedFeatures) = 2
    /\ \E i \in 1 .. 2 : getArea(UnkinkedFeatures[i]) < getArea(geometry.coords)

\* The point lies inside or on the bounding rectangle of the ring.
InRectangle(p, ring) ==
    /\ \E j \in 1 .. Len(ring) : ring[j][1] <= p[1]
    /\ \E j \in 1 .. Len(ring) : ring[j][1] >= p[1]
    /\ \E j \in 1 .. Len(ring) : ring[j][2] <= p[2]
    /\ \E j \in 1 .. Len(ring) : ring[j][2] >= p[2]

\* C9: when the envelope is the repair result, every vertex of the ring passed
\* to the repair lies inside or on the returned rectangle.
C9_EnvelopeEnclosesInput ==
    Len(stages) = 4 =>
        \A i \in 1 .. Len(fixInput.coords) : InRectangle(fixInput.coords[i], geometry.coords)

\* Two whole-degree bearings in (-180, 180] are exact reverses.
IsReverse(a, b) == Abs(a - b) = 180

IsKept(p) == \E j \in 1 .. Len(coordinates) : coordinates[j] = p

\* C10: overlap removal drops the point reached by one whole-degree bearing
\* and left by its exact reverse, for every pair of opposite headings, and
\* drops no other point.
C10_DropsExactReverses ==
    Len(stages) >= 2 =>
        LET c == removeDuplicates(fixInput.coords)
        IN  \A i \in 2 .. Len(c) - 1 :
                IsKept(c[i - 1]) =>
                    (IsKept(c[i]) <=>
                        ~ IsReverse(calcBearingInt(c[i - 1], c[i]), calcBearingInt(c[i], c[i + 1])))

\* The points of s at the positions in keep, in order.
RECURSIVE SelectAt(_, _, _)
SelectAt(s, keep, i) ==
    IF i > Len(s) THEN << >>
    ELSE (IF i \in keep THEN <<s[i]>> ELSE << >>) \o SelectAt(s, keep, i + 1)

\* The positions of s less than a metre from some earlier position of s.
NearEarlierInput(s, scale) ==
    {j \in 1 .. Len(s) : \E i \in 1 .. j - 1 : isNear(s[i], s[j], scale)}

\* keep holds the position j exactly when no earlier position of keep is
\* less than a metre from j.
KeepsFarFromKept(s, keep, scale) ==
    \A j \in 1 .. Len(s) :
        j \in keep <=> ~ \E i \in keep : i < j /\ isNear(s[i], s[j], scale)

DedupInput == fixInput.coords

C12_DedupIdempotent ==
    (pc = "dedup" /\ Len(stages) = 2) =>
        coordinates = removeDuplicatesAt(DedupInput, fixInput.scale)

\* Two passes over a sequence the first pass shortened.
C12_Witness ==
    /\ pc = "dedup" /\ Len(stages) = 2
    /\ Len(coordinates) < Len(DedupInput)
    /\ Len(coordinates) >= 2

\* The points a boundary of one line segment resolves to.
LinePoints == [i \in 1 .. Len(boundary[1].line) |-> toLonLat(boundary[1].line[i])]

\* The boundary is one line of three distinct points that are not collinear,
\* and createPolygonGeometry has run on it.
TriangleAssembled ==
    /\ pc \notin {"idle", "resolve"}
    /\ Len(boundary) = 1 /\ boundary[1].type = "line" /\ Len(boundary[1].line) = 3
    /\ \A i \in 1 .. 3 : boundary[1].line[i].wellFormed
    /\ Orient(LinePoints[1], LinePoints[2], LinePoints[3]) # 0

\* C13: the orientation step is idempotent: rewinding a ring the assembler
\* produced returns the same ring point for point.
C13_RewindIdempotent ==
    pc = "assembled" => rewind(geometry.coords) = geometry.coords

\* C14 as stated: a single line of three distinct non-collinear points A, B,
\* C, listed in either rotational order, assembles to exactly [A, B, C, A],
\* which validates as valid and simple.
C14_TriangleInGivenOrder ==
    TriangleAssembled =>
        /\ error.kind \notin {"TurfError", "InvalidLine", "InvalidCoordinate"}
        /\ geometry.coords = LinePoints \o <<LinePoints[1]>>
        /\ validateGeometry(geometry).isValid
        /\ validateGeometry(geometry).isSimple

\* C14 amended: the triangle assembles to [A, B, C, A] when A, B, C are listed
\* counter-clockwise and to [A, C, B, A] when they are listed clockwise; the
\* ring validates as valid and simple in both cases.
C14_TriangleCounterClockwise ==
    TriangleAssembled =>
        LET A == LinePoints[1]
            B == LinePoints[2]
            C == LinePoints[3]
        IN  /\ error = NoError
            /\ geometry.coords = IF Orient(A, B, C) > 0 THEN <<A, B, C, A>>
                                                         ELSE <<A, C, B, A>>
            /\ validateGeometry(geometry).isValid
            /\ validateGeometry(geometry).isSimple

\* A triangle listed clockwise, assembled in the reverse order.
C14_Witness ==
    /\ TriangleAssembled
    /\ pc = "assembled"
    /\ Orient(LinePoints[1], LinePoints[2], LinePoints[3]) < 0
    /\ geometry.coords = <<LinePoints[1], LinePoints[3], LinePoints[2], LinePoints[1]>>

\* The next segment to resolve is an arc.
ArcIsNext ==
    pc = "resolve" /\ resolved < Len(boundary) /\ boundary[resolved + 1].type = "arc"

\* C15: an arc that is the first segment fails with the error of the missing
\* preceding point whatever its other fields are, and no ring is produced; an
\* arc that follows at least one resolved line, arc or circle never fails
\* with that error.
C15_ArcNeedsPrecedingPoint ==
    [][ArcIsNext =>
        IF resolved = 0
        THEN /\ pc' = "failed"
             /\ error'.kind = "ArcMissingPrecedingPoint"
             /\ geometry' = NoGeometry /\ features' = << >>
        ELSE error'.kind # "ArcMissingPrecedingPoint"]_vars

\* A first arc whose direction and radius are missing has failed for the
\* missing preceding point.
C15_Witness ==
    /\ pc = "failed"
    /\ boundary[1].type = "arc"
    /\ boundary[1].arc.dir = "null" /\ ~ boundary[1].arc.radius.given
    /\ error.kind = "ArcMissingPrecedingPoint"

\* C16: for every from point A, to point B, centre and radius the resolver
\* accepts, and for clockwise and counter-clockwise arcs, the sequence
\* returned for the arc has A as its first and B as its last point.
C16_ArcRunsFromAToB ==
    (Len(boundary) >= 2 /\ boundary[1].type = "line" /\ boundary[2].type = "arc"
        /\ resolved = 2) =>
        /\ boundaryCoordinates[2] = toLonLat(boundary[1].line[1])
        /\ Last(boundaryCoordinates) = toLonLat(boundary[2].arc.to)

\* C17: every failure raised while a geometry of an airspace is processed,
\* the second and later geometries of the airspace included, names the
\* airspace's identifier and the geometry's sequence number.
C17_FailureNamesAirspaceAndSeqno ==
    pc = "failed" => (error.ident = AirspaceName /\ error.seqno = definitions)

\* The points resolved for the boundary in hand.
PointsOfBoundary == {AccumulatedCoords[i] : i \in 1 .. Len(AccumulatedCoords)}

InRange(token) ==
    /\ token.lat.min < 60 /\ token.lat.sec < 60
    /\ token.lon.min < 60 /\ token.lon.sec < 60
    /\ Abs(DmsSeconds(token.lat)) <= 90 * 3600
    /\ Abs(DmsSeconds(token.lon)) <= 180 * 3600

\* C19: decoding a coordinate token fails exactly when the token does not
\* match the digit and hemisphere pattern or one of its degree, minute or
\* second values is out of range; every token that matches with values in
\* range decodes to a pair of longitude and latitude.
C19_DecodeFailsIffMalformed ==
    (Len(boundary) = 1 /\ boundary[1].type = "line" /\ Len(boundary[1].line) = 1) =>
        LET token == boundary[1].line[1]
            accepted == matchesCoordinates(token) /\ InRange(token)
        IN  /\ pc = "failed" => ~ accepted
            /\ resolved = 1 => accepted /\ boundaryCoordinates = <<toLonLat(token)>>

\* Every member has an allowed type, an allowed class and a polygon patch.
AllMembersAllowed ==
    /\ members # << >>
    /\ \A i \in 1 .. Len(members) :
          /\ members[i].type \in ALLOWED_TYPES
          /\ members[i].class \in ALLOWED_CLASSES
          /\ members[i].patch = "PolygonPatch"

\* C20: for every AIXM document whose members all have an allowed type and
\* class and a polygon-patch geometry, convertFromFile with fixGeometries and
\* strictSchemaValidation on, followed by toGeojsonFile, raises no error, and
\* the stored feature collection holds one feature for each member.
C20_AllowedDocumentConverts ==
    (config.fixGeometries /\ config.strictSchemaValidation /\ AllMembersAllowed) =>
        /\ pc \notin {"failed", "notWritten"}
        /\ pc \in {"converted", "written"} =>
              geojson.given /\ Len(geojson.features) = Len(members)

\* convert has run its loop to the end and validates the collection.
CollectionAssembled == pc = "done" /\ pc' \in {"converted", "failed"}

CallInHand == calls[Len(calls)]

\* C22: a call of convertFromBuffer, or of convertFromFile on a file that
\* exists, with a type that is neither empty nor 'airspace' fails with the
\* unknown-type error; this.geojson, which toGeojson() returns, is null from
\* then on, whatever the call before had left there.
C22_OnlyAirspaceSupported ==
    (calls # << >> /\ CallInHand.type \notin {"airspace", ""} /\ CallInHand.given) =>
        /\ pc \in {"failed", "notWritten"}
        /\ pc = "failed" => error.kind = "UnknownType"
        /\ geojson = NoGeojson

\* A call with the type 'airport' has failed, after a call that had
\* returned a collection.
C22_Witness ==
    /\ Len(calls) = 2
    /\ CallInHand.type = "airport" /\ CallInHand.given
    /\ CallInHand.ended \in {"converted", "written"}
    /\ pc = "failed" /\ error.kind = "UnknownType"
    /\ geojson = NoGeojson

\* The arc next in turn has been resolved and its points appended.
ArcAppended == ArcIsNext /\ resolved' = resolved + 1

\* C23: when an arc is resolved the point appended first is not lastPoint
\* over again, and the accumulator then ends with the arc's 'to' point.
C23_ArcAppendedWithoutFromPoint ==
    [][ArcAppended =>
         /\ boundaryCoordinates'[Len(boundaryCoordinates) + 1] # Last(boundaryCoordinates)
         /\ Last(boundaryCoordinates') = toLonLat(boundary[resolved + 1].arc.to)]_vars

SegmentListsAfter(before, segment, steps) ==
    Append(before,
           segmentCoordinates(segment, IF before = << >> THEN << >> ELSE Last(before),
                              steps).val)

\* The lists produced for the first k segments, each from the last
\* coordinate of the list before it.
RECURSIVE SegmentLists(_, _, _)
SegmentLists(segments, k, steps) ==
    IF k = 0 THEN << >>
    ELSE SegmentListsAfter(SegmentLists(segments, k - 1, steps), segments[k], steps)

RECURSIVE Concatenation(_, _)
Concatenation(lists, i) ==
    IF i > Len(lists) THEN << >> ELSE lists[i] \o Concatenation(lists, i + 1)

\* C24: while a boundary is resolved, and after a segment has failed, the
\* accumulator is the concatenation, in segment order, of the lists produced
\* for the segments resolved so far, where the list of an arc is the one
\* computed from the last coordinate of the list of the segment just before
\* it (the last point of a line, of an arc, the closing point of a circle).
C24_SegmentsInListOrder ==
    pc \in {"resolve", "failed"} =>
        boundaryCoordinates =
            Concatenation(SegmentLists(boundary, resolved, config.geometryDetail), 1)

\* A line and two arcs are resolved, the second arc counter-clockwise.
C24_Witness ==
    /\ pc = "resolve" /\ resolved = 3
    /\ boundary[2].type = "arc" /\ boundary[3].type = "arc"
    /\ boundary[3].arc.dir = "ccw"
    /\ Len(boundaryCoordinates) > 3

\* The next segment to resolve is of a type other than line, arc and circle.
UnsupportedIsNext ==
    /\ pc = "resolve" /\ resolved < Len(boundary)
    /\ boundary[resolved + 1].type \notin {"line", "arc", "circle"}

\* C25: when the segment in turn is of a type other than line, arc and
\* circle, the resolution fails there with the unsupported-boundary-type
\* error, whatever was resolved before; no ring and no feature is produced
\* for the boundary.
C25_UnsupportedTypeFails ==
    [][UnsupportedIsNext =>
         /\ pc' = "failed"
         /\ error'.kind = "UnsupportedBoundaryType"
         /\ resolved' = resolved
         /\ geometry' = NoGeometry
         /\ features' = features /\ Len(features) = definitions - 1]_vars

\* The boundary failed at a segment of another type after a line was
\* resolved.
C25_Witness ==
    /\ pc = "failed" /\ error.kind = "UnsupportedBoundaryType"
    /\ resolved = 1 /\ boundary[2].type = "polyline"
    /\ boundaryCoordinates # << >>
    /\ geometry = NoGeometry

\* The arc in turn, which has a point before it.
ArcInHand == boundary[resolved + 1].arc

\* The first of direction, radius, centre and to that is not as its pattern
\* wants it, a missing field being one that is not.
FirstInvalidField(arc) ==
    CASE arc.dir \notin {"cw", "ccw"} -> "InvalidArcDirection"
      [] ~ arc.radius.wellFormed -> "InvalidArcRadius"
      [] ~ matchesCoordinates(arc.centre) -> "InvalidArcCentre"
      [] ~ matchesCoordinates(arc.to) -> "InvalidArcTo"
      [] OTHER -> "none"

AnyFieldMissing(arc) ==
    arc.dir = "null" \/ ~ arc.radius.given \/ ~ arc.centre.given \/ ~ arc.to.given

\* C26, as claimed: an arc with a point before it and a direction outside
\* cw and ccw, or a radius, centre or to that does not match its pattern,
\* fails with the error that names the first such field in the order
\* direction, radius, centre, to, and appends nothing.
C26_FirstInvalidFieldNamed ==
    [][(ArcIsNext /\ resolved > 0 /\ FirstInvalidField(ArcInHand) # "none") =>
         /\ pc' = "failed"
         /\ error'.kind = FirstInvalidField(ArcInHand)
         /\ boundaryCoordinates' = boundaryCoordinates]_vars

\* C26, amended: such an arc fails and appends nothing; when all four fields
\* are given the error names the first field, in the order direction,
\* radius, centre, to, that is not as its pattern wants it; when one of the
\* four is missing the error is that of an invalid arc definition and names
\* no field.
C26_FirstInvalidFieldNamedIfAllGiven ==
    [][(ArcIsNext /\ resolved > 0 /\ FirstInvalidField(ArcInHand) # "none") =>
         /\ pc' = "failed"
         /\ error'.kind = IF AnyFieldMissing(ArcInHand) THEN "InvalidArc"
                                                       ELSE FirstInvalidField(ArcInHand)
         /\ boundaryCoordinates' = boundaryCoordinates]_vars

\* An arc after a line, with a direction outside cw and ccw and a malformed
\* radius, has failed for its direction.
C26_Witness ==
    /\ pc = "failed" /\ resolved = 1
    /\ boundary[2].type = "arc"
    /\ boundary[2].arc.dir = "left" /\ boundary[2].arc.radius = MalformedRadius
    /\ error.kind = "InvalidArcDirection"
    /\ Len(boundaryCoordinates) = 1

\* The features created by the calls, pushed or waiting for their ground
\* service.
FeaturesCreated ==
    UNION {{tasks.call[id].features[i] : i \in 1 .. Len(tasks.call[id].features)}
             \cup {tasks.call[id].pending[i] : i \in 1 .. Len(tasks.call[id].pending)} :
           id \in CallIds}

GeojsonOfLastCall ==
    /\ pc \in {"converted", "written"} => (geojson.given /\ geojson.features = features)
    /\ pc \notin {"ready", "converted", "written"} => geojson = NoGeojson
    /\ pc = "notWritten" => error.kind = "NoGeojson"

\* toGeojsonFile is called after a call that failed.
WrittenAfterFailure == pc = "failed" /\ pc' \in {"written", "notWritten"}

\* C28: through every sequence of calls of convertFromBuffer and
\* convertFromFile, this.geojson is the collection of the last call when it
\* has returned, and null while a call runs and after it has failed: neither
\* the collection of an earlier call nor the features pushed before the
\* failure; toGeojsonFile after a failed call throws 'No GeoJSON data to
\* write to file'.
C28_GeojsonOfMostRecentCall ==
    /\ []GeojsonOfLastCall
    /\ [][WrittenAfterFailure => (pc' = "notWritten" /\ error'.kind = "NoGeojson")]_vars

\* The second call has failed on its second geometry, a feature pushed
\* before it, after a first call that had returned a collection.
C28_Witness ==
    /\ Len(calls) = 2
    /\ CallInHand.ended \in {"converted", "written"}
    /\ pc = "failed"
    /\ features # << >>
    /\ geojson = NoGeojson

IsSubsequence(a, b) == \E keep \in SUBSET (1 .. Len(b)) : a = SelectAt(b, keep, 1)

\* A cleaning stage has run on coordinates.
StageApplied == stages' # stages

\* C30: what removeDuplicates and removeOverlapPoints return is their input
\* with some points left out, the order kept and the first point retained;
\* removeOverlapPoints retains the last point too; no two points retained by
\* removeDuplicates are less than 0.001 km apart.
C30_StagesOnlyRemovePoints ==
    [][StageApplied =>
         /\ IsSubsequence(coordinates', coordinates)
         /\ coordinates # << >> =>
               /\ coordinates' # << >>
               /\ coordinates'[1] = coordinates[1]
               /\ Last(stages') = "overlap" => Last(coordinates') = Last(coordinates)
         /\ Last(stages') = "dedup" =>
               \A i, j \in 1 .. Len(coordinates') :
                   i < j => ~ isNear(coordinates'[i], coordinates'[j], fixInput.scale)]_vars

\* removeOverlapPoints has left out a point of the input, and removeDuplicates
\* a point of what was left.
C30_Witness ==
    /\ stages = <<"overlap", "dedup">>
    /\ Len(removeOverlapPoints(DedupInput)) < Len(DedupInput)
    /\ Len(coordinates) < Len(removeOverlapPoints(DedupInput))
====
